---------------------------- MODULE Spec2Model ----------------------------
(***************************************************************************)
(* Model of the table layer that src/db/nondiesel/fdb.rs generates with    *)
(* the fdb_table! macro: rows stored as one key-value cell per column,     *)
(* unique and multi secondary indices kept next to them, every operation   *)
(* run in one FoundationDB transaction.                                    *)
(*                                                                         *)
(* The modelled table is `user` of src/db/schemas/fdb/schema.rs cut down   *)
(* to three of its String columns (uuid = 0, email = 7, name = 10).  The   *)
(* macro is generative, so the table declaration (primary key columns,     *)
(* UNIQUE columns, MULTI columns) is a part of the state that Init draws   *)
(* and no action changes.                                                  *)
(*                                                                         *)
(* Next to it, the two store connections of src/new_db/custom_backends:    *)
(* RdbConnection (rdb.rs), whose `transact` is a retry loop over RocksDB   *)
(* optimistic transactions, and FdbConnection (fdb.rs), with the process-  *)
(* wide network runner that `start` and `stop` guard.  Then RdbKeyspace    *)
(* and the reads and writes of RdbTransaction (rdb.rs): the prefixes and   *)
(* ranges of keyspaces, the range reads of one transaction, RocksDB        *)
(* transactions open side by side; calls of the generated `set` side by    *)
(* side in FoundationDB transactions; and threads that call `start` and    *)
(* `stop` under the mutex of the network runner.  Each part has a          *)
(* specification of its own, in which the variables of the other parts     *)
(* stay as Init sets them.                                                 *)
(***************************************************************************)
EXTENDS Integers, Sequences, FiniteSets, TLC

VARIABLES
    tbl,    \* the table declaration handed to fdb_table!
    db,     \* the committed key-value store: a function key -> bytes
    ret     \* what the last operation returned to its caller

\* RdbConnection and the call of `transact` in progress on it.
VARIABLES
    conn,            \* "none" before establish, "open" once it returned Ok
    database,        \* the committed content of the RocksDB database
    retry_attempts,  \* RdbConnection.retry_attempts
    pc,              \* where the call of transact stands
    loop_i,          \* the index i of the for loop
    last_error,      \* the local last_error: an Option of a rocksdb error
    transaction,     \* the write batch of the open transaction
    result,          \* what the closure returned in this iteration
    out,             \* what establish or transact returned last
    begun            \* history: the store, and the work done, of this call

\* FdbConnection and the network runner of the process.
VARIABLES
    network_runner,  \* FDB_NETWORK_RUNNER: "unbooted", "running" or "stopped"
    dropped,         \* history: how many runners have been dropped
    fdb_database,    \* the connection the last successful establish built
    fdb_in,          \* history: what the last call was given
    fdb_out          \* what the last call returned

\* RdbKeyspace values and the last call on one of them.
VARIABLES
    ks_parent,  \* the keyspace the two siblings are derived from
    ks_child,   \* the two byte strings handed to keyspace or from_bytes
    ks_sib,     \* the two derived keyspaces (RdbKeyspace.bytes of each)
    ks_how,     \* how ks_sib was built: "all", "keyspace" or "from_bytes"
    ks_call     \* the last call of pack, unpack or range and its result

\* One RdbTransaction read through its iterators.
VARIABLES
    iter_db,    \* what the iterators of the transaction run over
    iter_out    \* the last call of get_range, get_space or clear_space

\* RocksDB transactions open side by side on one database.
VARIABLES
    trxs,       \* per transaction: open or not, write batch, history
    got         \* the last call on a transaction and what it returned

\* Calls of the generated `set`, each in a transaction of its own, side
\* by side on the store `db`.
VARIABLES
    sets        \* per call: where it stands, its row, its transaction

\* Threads calling start and stop of FdbConnection side by side.
VARIABLES
    threads     \* the mutex, where each thread stands, and the lock order

tableVars == <<tbl, db, ret>>
fdbVars == <<network_runner, dropped, fdb_database, fdb_in, fdb_out>>
rdbVars == <<conn, database, retry_attempts, pc, loop_i, last_error, transaction, result, out, begun>>
ksVars == <<ks_parent, ks_child, ks_sib, ks_how, ks_call>>
kvVars == <<ksVars, iter_db, iter_out, trxs, got, sets, threads>>
vars == <<tableVars, rdbVars, fdbVars, kvVars>>

---------------------------------------------------------------------------
(* Bound of the model. *)

\* How many different strings callers store in the `name` column.
NumNames == 1

---------------------------------------------------------------------------
(* Column tags of the table (enum Col, the `= $col_num` of every attribute). *)

Uuid == 0
Email == 7
Name == 10

\* The strings callers pass.  Every column is a String and nothing keeps
\* the values of one column apart from those of another: the second name
\* is spelled like a uuid.
Uuids == {"u1", "u2"}
Emails == {"a@x.com", "a2@x.com"}
Names == {<<"n", "u1", "m">>[i] : i \in 1..NumNames}

TypeOf(col) == IF col = Uuid THEN Uuids ELSE IF col = Email THEN Emails ELSE Names

\* The table declarations fdb_table! is expanded with: the attributes in
\* the order they are declared, the primary key, the UNIQUE and the MULTI
\* index columns.
Declarations ==
    { [attrs |-> <<Uuid, Email>>,       pk |-> <<Uuid>>,
       unique |-> <<Email>>, multi |-> <<>>],
      [attrs |-> <<Uuid, Name>>,        pk |-> <<Uuid>>,
       unique |-> <<>>,      multi |-> <<Name>>],
      [attrs |-> <<Uuid, Email, Name>>, pk |-> <<Uuid>>,
       unique |-> <<Email>>, multi |-> <<Name>>],
      [attrs |-> <<Uuid, Name, Email>>, pk |-> <<Uuid, Name>>,
       unique |-> <<>>,      multi |-> <<>>] }

\* $( $attr_name ),+
ATTRS == tbl.attrs
PK_COLS == tbl.pk
U_INDEX_COLS == tbl.unique
M_INDEX_COLS == tbl.multi

Cols == {ATTRS[i] : i \in 1..Len(ATTRS)}

InSeq(x, s) == \E i \in 1..Len(s) : s[i] = x

---------------------------------------------------------------------------
(* Bytes.  A byte string is a non-empty sequence; <<>> stands for "no      *)
(* value" (Option::None of a read, a cleared key in a write buffer).       *)

None == <<>>

\* bson::to_vec of a String / into_db_type of a String attribute.
Ser(v) == <<"str", v>>

\* bson::from_slice::<String>.
De(b) == b[2]

\* bson::to_vec(&($( $key_name ),+)): one key is the bare value, several
\* keys are a tuple.
SerKeyTuple(keys) == IF Len(keys) = 1 THEN Ser(keys[1]) ELSE <<"arr">> \o keys

\* bson::from_slice into ($($ui_k_name),+).
DeKeyTuple(b) == IF b[1] = "str" THEN <<b[2]>> ELSE Tail(b)

---------------------------------------------------------------------------
(* Keys of the store. *)

\* key_subspace(keys).pack(&(col as u16))
CellKey(keys, col) == <<"tbl", keys, col>>

---------------------------------------------------------------------------
(* A FoundationDB transaction: a snapshot of the committed store taken     *)
(* when it starts and a buffer of its own writes, read back by its own     *)
(* reads and applied to the store by commit, all at once.                  *)

TrxNew(store) == [snap |-> store, w |-> <<>>]

\* trx.get(key, false)
TrxGet(trx, key) ==
    IF key \in DOMAIN trx.w THEN trx.w[key]
    ELSE IF key \in DOMAIN trx.snap THEN trx.snap[key]
    ELSE None

Buffer(w, keys, val) ==
    [k \in (DOMAIN w) \cup keys |-> IF k \in keys THEN val ELSE w[k]]

\* trx.set(key, value)
TrxSet(trx, key, val) == [trx EXCEPT !.w = Buffer(trx.w, {key}, val)]

\* trx.clear(key)
TrxClear(trx, key) == [trx EXCEPT !.w = Buffer(trx.w, {key}, None)]

\* trx.clear_subspace_range(key_subspace(keys)): every cell of the row,
\* those the transaction wrote itself included.
TrxClearSubspace(trx, keys) ==
    LET known == (DOMAIN trx.snap) \cup (DOMAIN trx.w)
        under == {k \in known : k[1] = "tbl" /\ k[2] = keys}
    IN  [trx EXCEPT !.w = Buffer(trx.w, under, None)]

\* The store a successful trx.commit() leaves.
Committed(trx) ==
    LET gone == {k \in DOMAIN trx.w : trx.w[k] = None}
        keys == ((DOMAIN trx.snap) \cup (DOMAIN trx.w)) \ gone
    IN  [k \in keys |-> IF k \in DOMAIN trx.w THEN trx.w[k] ELSE trx.snap[k]]

\* trx.commit(): `ok` is the store's verdict.  A transaction that is
\* dropped without commit leaves the store as it was.
TrxCommit(trx, ok) == IF ok THEN Committed(trx) ELSE trx.snap

---------------------------------------------------------------------------
(* trx_helpers *)

\* index_subspace.pack(bytes), index_subspace being
\* Subspace::from_bytes(X_INDEX_SUBSPACE).subspace(&(index_col as u16)).
Pack(index_subspace, bytes) == index_subspace \o <<bytes>>

u_index_col_subspace(index_col) == <<"u_i", index_col>>

m_index_col_subspace(index_col) == <<"m_i", index_col>>

Ok(trx) == [err |-> "Ok", trx |-> trx]
Err(e, trx) == [err |-> e, trx |-> trx]

\* set_unique_index without the check of the new value's entry.
set_unique_index_overwriting(trx, index_subspace, new_index, table_key, ser_key_tuple) ==
    LET old_index == TrxGet(trx, table_key)
        old_index_key == Pack(index_subspace, old_index)
        old_index_pk == IF old_index = None THEN None ELSE TrxGet(trx, old_index_key)
        cleared == IF old_index_pk = None THEN trx ELSE TrxClear(trx, old_index_key)
    IN  IF old_index_pk # None /\ old_index_pk # ser_key_tuple
          THEN Err("IndexMismatchError", trx)
        ELSE IF old_index_pk # None /\ old_index = new_index
          THEN Ok(trx)
        ELSE Ok(TrxSet(cleared, Pack(index_subspace, new_index), ser_key_tuple))

\* set_unique_index without the clear of the old value's entry.
set_unique_index_keeping_old(trx, index_subspace, new_index, table_key, ser_key_tuple) ==
    LET old_index == TrxGet(trx, table_key)
        old_index_key == Pack(index_subspace, old_index)
        old_index_pk == IF old_index = None THEN None ELSE TrxGet(trx, old_index_key)
        new_index_key == Pack(index_subspace, new_index)
    IN  IF old_index_pk # None /\ old_index_pk # ser_key_tuple
          THEN Err("IndexMismatchError", trx)
        ELSE IF old_index_pk # None /\ old_index = new_index
          THEN Ok(trx)
        ELSE IF TrxGet(trx, new_index_key) # None
          THEN Err("IndexAlreadyExists", trx)
        ELSE Ok(TrxSet(trx, new_index_key, ser_key_tuple))

\* set_unique_index that returns Ok for an unchanged value before it looks
\* at the owner of the old value's entry.
set_unique_index_same_value_first(trx, index_subspace, new_index, table_key, ser_key_tuple) ==
    LET old_index == TrxGet(trx, table_key)
        old_index_key == Pack(index_subspace, old_index)
        old_index_pk == IF old_index = None THEN None ELSE TrxGet(trx, old_index_key)
        cleared == IF old_index_pk = None THEN trx ELSE TrxClear(trx, old_index_key)
        new_index_key == Pack(index_subspace, new_index)
    IN  IF old_index_pk # None /\ old_index = new_index
          THEN Ok(trx)
        ELSE IF old_index_pk # None /\ old_index_pk # ser_key_tuple
          THEN Err("IndexMismatchError", trx)
        ELSE IF TrxGet(cleared, new_index_key) # None
          THEN Err("IndexAlreadyExists", cleared)
        ELSE Ok(TrxSet(cleared, new_index_key, ser_key_tuple))

set_unique_index(trx, index_subspace, new_index, table_key, ser_key_tuple) ==
    LET old_index == TrxGet(trx, table_key)
        old_index_key == Pack(index_subspace, old_index)
        old_index_pk == IF old_index = None THEN None ELSE TrxGet(trx, old_index_key)
        cleared == IF old_index_pk = None THEN trx ELSE TrxClear(trx, old_index_key)
        new_index_key == Pack(index_subspace, new_index)
    IN  IF old_index_pk # None /\ old_index_pk # ser_key_tuple
          THEN Err("IndexMismatchError", trx)
        ELSE IF old_index_pk # None /\ old_index = new_index
          THEN Ok(trx)
        ELSE IF TrxGet(cleared, new_index_key) # None
          THEN Err("IndexAlreadyExists", cleared)
        ELSE Ok(TrxSet(cleared, new_index_key, ser_key_tuple))

set_multi_index(trx, index_subspace, new_index, table_key, ser_key_tuple) ==
    LET old_index == TrxGet(trx, table_key)
        old_index_key == Pack(index_subspace, old_index)
        old_index_pk == IF old_index = None THEN None ELSE TrxGet(trx, old_index_key)
        cleared == IF old_index_pk = None THEN trx ELSE TrxClear(trx, old_index_key)
        new_index_key == Pack(index_subspace, new_index)
    IN  IF old_index_pk # None /\ old_index_pk # ser_key_tuple
          THEN Err("IndexMismatchError", trx)
        ELSE IF old_index_pk # None /\ old_index = new_index
          THEN Ok(trx)
        ELSE IF TrxGet(cleared, new_index_key) # None
          THEN Err("IndexAlreadyExists", cleared)
        ELSE Ok(TrxSet(cleared, new_index_key, ser_key_tuple))

delete_multi_index(trx, index_col_subspace, ser_key_tuple) ==
    LET key == Pack(index_col_subspace, ser_key_tuple)
    IN  IF TrxGet(trx, key) = None
          THEN Err("TrxFail", trx)
          ELSE Ok(TrxClear(trx, key))

---------------------------------------------------------------------------
(* The row type <Table>Db the macro generates. *)

\* The key columns' values, in the order of the declaration.
KeysOf(vals) == [i \in 1..Len(PK_COLS) |-> vals[PK_COLS[i]]]

\* What callers pass to `new`: one String per attribute.
Values ==
    {[c \in Cols |-> IF c = Uuid THEN u ELSE IF c = Email THEN e ELSE n] :
        u \in Uuids, e \in Emails, n \in Names}

\* The key tuples callers pass to get, delete and the column accessors.
KeyTuples == {KeysOf(v) : v \in Values}

NoRow ==
    [_subspace |-> <<>>, _saved |-> FALSE, _serialized_key_tuple |-> None,
     attr |-> [c \in Cols |-> None]]

new(vals) ==
    [_subspace |-> KeysOf(vals),
     _saved |-> FALSE,
     _serialized_key_tuple |-> SerKeyTuple(KeysOf(vals)),
     attr |-> [c \in Cols |-> Ser(vals[c])]]

\* Every row `new` can build.
Rows == {new(v) : v \in Values}

\* get: a missing cell is an unwrap of None, which aborts the caller.
get(trx, keys) ==
    LET cell == [c \in Cols |-> TrxGet(trx, CellKey(keys, c))]
    IN  IF \E c \in Cols : cell[c] = None
          THEN [status |-> "panic", row |-> NoRow]
          ELSE [status |-> "Some",
                row |-> [_subspace |-> keys, _saved |-> TRUE,
                         _serialized_key_tuple |-> SerKeyTuple(keys), attr |-> cell]]

RECURSIVE set_unique_indices(_, _, _)
\* $( set_unique_index(...).await?; )+ from the i-th UNIQUE column on.
set_unique_indices(self, trx, i) ==
    IF i > Len(U_INDEX_COLS) THEN Ok(trx)
    ELSE LET col == U_INDEX_COLS[i]
             r == set_unique_index(trx, u_index_col_subspace(col), self.attr[col],
                                   CellKey(self._subspace, col), self._serialized_key_tuple)
         IN  IF r.err # "Ok" THEN r ELSE set_unique_indices(self, r.trx, i + 1)

RECURSIVE set_multi_indices(_, _, _)
\* $( set_multi_index(...).await?; )+ from the i-th MULTI column on.
set_multi_indices(self, trx, i) ==
    IF i > Len(M_INDEX_COLS) THEN Ok(trx)
    ELSE LET col == M_INDEX_COLS[i]
             r == set_multi_index(trx, m_index_col_subspace(col), self.attr[col],
                                  CellKey(self._subspace, col), self._serialized_key_tuple)
         IN  IF r.err # "Ok" THEN r ELSE set_multi_indices(self, r.trx, i + 1)

RECURSIVE set_cells_after_key(_, _, _)
\* set_cells that leaves out the cells of the key columns.
set_cells_after_key(self, trx, i) ==
    IF i > Len(ATTRS) THEN trx
    ELSE set_cells_after_key(
             self,
             IF InSeq(ATTRS[i], PK_COLS) THEN trx
             ELSE TrxSet(trx, CellKey(self._subspace, ATTRS[i]), self.attr[ATTRS[i]]),
             i + 1)

RECURSIVE set_cells(_, _, _)
\* $( trx.set(&self._subspace.pack(&(Col as u16)), &self.$attr_name); )+
set_cells(self, trx, i) ==
    IF i > Len(ATTRS) THEN trx
    ELSE set_cells(self, TrxSet(trx, CellKey(self._subspace, ATTRS[i]), self.attr[ATTRS[i]]),
                   i + 1)

\* A transaction that goes out of scope uncommitted: its writes are gone.
TrxDrop(trx) == trx.snap

\* set that commits the unique indices before it turns to the multi ones.
set_in_two_commits(self, trx, commit_ok) ==
    LET u == set_unique_indices(self, trx, 1)
        half == IF u.err = "Ok" THEN TrxNew(TrxCommit(u.trx, TRUE)) ELSE u.trx
        m == IF u.err = "Ok" THEN set_multi_indices(self, half, 1) ELSE u
        written == set_cells(self, m.trx, 1)
    IN  IF m.err # "Ok"
          THEN [status |-> m.err, db |-> TrxDrop(m.trx), self |-> self]
        ELSE IF ~commit_ok
          THEN [status |-> "TrxCommitFail", db |-> TrxCommit(written, FALSE), self |-> self]
        ELSE [status |-> "Ok", db |-> TrxCommit(written, TRUE),
              self |-> [self EXCEPT !._saved = TRUE]]

\* set(&mut self, trx): the result, the store afterwards and self afterwards.
\* An index error returns before the commit and the transaction is dropped.
set(self, trx, commit_ok) ==
    LET u == set_unique_indices(self, trx, 1)
        m == IF u.err = "Ok" THEN set_multi_indices(self, u.trx, 1) ELSE u
        written == set_cells(self, m.trx, 1)
    IN  IF m.err # "Ok"
          THEN [status |-> m.err, db |-> TrxDrop(m.trx), self |-> self]
        ELSE IF ~commit_ok
          THEN [status |-> "TrxCommitFail", db |-> TrxCommit(written, FALSE), self |-> self]
        ELSE [status |-> "Ok", db |-> TrxCommit(written, TRUE),
              self |-> [self EXCEPT !._saved = TRUE]]

RECURSIVE delete_multi_indices(_, _, _)
\* $( delete_multi_index(...).await?; )+ from the i-th MULTI column on.
delete_multi_indices(self, trx, i) ==
    IF i > Len(M_INDEX_COLS) THEN Ok(trx)
    ELSE LET r == delete_multi_index(trx, m_index_col_subspace(M_INDEX_COLS[i]),
                                     self._serialized_key_tuple)
         IN  IF r.err # "Ok" THEN r ELSE delete_multi_indices(self, r.trx, i + 1)

\* delete(self, trx): the unique indices are not touched.
delete(self, trx, commit_ok) ==
    LET m == delete_multi_indices(self, TrxClearSubspace(trx, self._subspace), 1)
    IN  IF m.err # "Ok"
          THEN [status |-> m.err, db |-> TrxDrop(m.trx)]
        ELSE IF ~commit_ok
          THEN [status |-> "TrxCommitFail", db |-> TrxCommit(m.trx, FALSE)]
        ELSE [status |-> "Ok", db |-> TrxCommit(m.trx, TRUE)]

\* get_by_<unique_index>(trx, value)
get_by_unique(trx, col, value) ==
    LET key == Pack(u_index_col_subspace(col), Ser(value))
        res == TrxGet(trx, key)
    IN  IF res = None THEN [status |-> "None", row |-> NoRow]
        ELSE get(trx, DeKeyTuple(res))

\* get_by_<multi_index>(trx, value): todo!()
get_by_multi(trx, col, value) == [status |-> "panic", rows |-> {}]

\* get_<attr>(&self)
get_attr(self, col) == De(self.attr[col])

\* A check of the first key column alone.
IsFirstPkCol(col) == col = PK_COLS[1]

\* PK_COLS.contains(&col)
IsPkCol(col) == InSeq(col, PK_COLS)

\* set_<attr>(&mut self, trx, value): the result, the store and self
\* afterwards, and the transaction as the call left it.  The commit is
\* unwrapped: a failed one aborts the caller.
set_attr(self, trx, col, value, commit_ok) ==
    LET key == CellKey(self._subspace, col)
        ser == Ser(value)
        written == TrxSet(trx, key, ser)
    IN  IF IsPkCol(col)
          THEN [status |-> "OpProhibited", db |-> trx.snap, self |-> self, trx |-> trx]
        ELSE IF ~commit_ok
          THEN [status |-> "panic", db |-> TrxCommit(written, FALSE), self |-> self,
                trx |-> written]
        ELSE [status |-> "Ok", db |-> TrxCommit(written, TRUE),
              self |-> [self EXCEPT !.attr[col] = ser], trx |-> written]

\* column::<attr>::get(trx, keys)
column_get(trx, keys, col) ==
    LET val_slice == TrxGet(trx, CellKey(keys, col))
    IN  IF val_slice = None THEN [status |-> "None", val |-> None]
        ELSE [status |-> "Some", val |-> De(val_slice)]

\* column::<attr>::set(trx, keys, value): commit is unwrapped.
column_set(trx, keys, col, value, commit_ok) ==
    LET written == TrxSet(trx, CellKey(keys, col), Ser(value))
    IN  IF IsPkCol(col)
          THEN [status |-> "OpProhibited", db |-> trx.snap, trx |-> trx]
        ELSE IF ~commit_ok
          THEN [status |-> "panic", db |-> TrxCommit(written, FALSE), trx |-> written]
        ELSE [status |-> "Ok", db |-> TrxCommit(written, TRUE), trx |-> written]

\* What a table operation returned to its caller.
Returned(op, status) == [op |-> op, status |-> status]

\* No table operation has run.
TableInit ==
    /\ db = <<>>
    /\ ret = Returned("none", "Ok")

---------------------------------------------------------------------------
(* RdbConnection (src/new_db/custom_backends/rdb.rs): establish, and       *)
(* transact as the steps of its retry loop.  The closure and the RocksDB   *)
(* transaction are the surroundings: what a closure writes and returns,    *)
(* and what a commit or a rollback reports, are drawn from small sets.     *)

\* Bound: the largest retry_attempts a configuration carries.
MaxRetryAttempts == 2

\* Keys and values closures write; Absent stands for no value under a key.
RdbKeys == {"k1", "k2"}
RdbVals == {"a", "b"}
Absent == "-"

\* The content of a database: every key has a value or none.
Stores == [RdbKeys -> RdbVals \cup {Absent}]

\* The write batch of a transaction: per key nothing, a put or a delete.
Untouched == "untouched"
WriteBatches == [RdbKeys -> RdbVals \cup {Absent, Untouched}]
EmptyBatch == [k \in RdbKeys |-> Untouched]

\* A transaction that starts with the batch of the attempt before it.
TransactionKeepingBatch == [open |-> TRUE, w |-> begun.batch]

\* self.database.transaction(): a transaction with nothing buffered.
Transaction == [open |-> TRUE, w |-> EmptyBatch]
NoTransaction == [open |-> FALSE, w |-> EmptyBatch]

\* A commit that succeeds applies the whole batch.
Applied(store, w) == [k \in RdbKeys |-> IF w[k] = Untouched THEN store[k] ELSE w[k]]

\* rocksdb::ErrorKind, four of its kinds.
ErrorKinds == {"Busy", "TryAgain", "IOError", "Corruption"}

\* DbConnError::EstablishFail
EstablishFail == <<"EstablishFail">>

\* TransactionError: RdbTrxFailed(#[from] RdbError) and SerializationError.
RdbTrxFailed(kind) == <<"RdbTrxFailed", kind>>
SerializationError == <<"SerializationError">>
NoError == <<>>

\* The errors a closure returns: ClosureError is TransactionError.
ClosureErrors == {SerializationError, RdbTrxFailed("IOError")}

\* The values a closure returns.
ClosureValues == {"v1", "v2"}

\* Result values, and the abort of the caller by a panic.
ReturnOk(v) == [tag |-> "Ok", val |-> v, err |-> NoError]
ReturnErr(e) == [tag |-> "Err", val |-> "", err |-> e]
Panic == [tag |-> "panic", val |-> "", err |-> NoError]
NoReturn == [tag |-> "none", val |-> "", err |-> NoError]

\* What a call returned to its caller.
Out(op, r) == [op |-> op, r |-> r]

\* Option<rocksdb::Error>: None, or Some of an error of a kind.
NoneError == "None"

\* The history of a call of transact: the store it began on, the
\* transactions it opened, the closure invocations and what the last one
\* buffered, the rollback calls, what each commit reported, and the
\* transaction that committed with the value of its closure invocation.
Begun(store) ==
    [database |-> store, opened |-> 0, invoked |-> 0, batch |-> EmptyBatch,
     reverts |-> 0, commits |-> <<>>, won |-> NoTransaction, value |-> ""]

RdbInit ==
    /\ conn = "none"
    /\ database = [k \in RdbKeys |-> Absent]
    /\ retry_attempts = 0
    /\ pc = "idle"
    /\ loop_i = 0
    /\ last_error = NoneError
    /\ transaction = NoTransaction
    /\ result = NoReturn
    /\ out = Out("none", NoReturn)
    /\ begun = Begun([k \in RdbKeys |-> Absent])

\* establish(config): open_default(&config.db_path).unwrap(), then the
\* connection with the configured retry_attempts.
RdbEstablish(config, opened) ==
    /\ pc = "idle"
    /\ conn = "none"
    /\ IF opened
         THEN /\ conn' = "open"
              /\ retry_attempts' = config.retry_attempts
              /\ out' = Out("establish", ReturnOk(""))
         ELSE /\ out' = Out("establish", Panic)
              /\ UNCHANGED <<conn, retry_attempts>>
    /\ UNCHANGED <<tableVars, fdbVars, kvVars, database, pc, loop_i, last_error, transaction, result, begun>>

\* transact(f) is called: let mut last_error = None.
TransactCall ==
    /\ pc = "idle"
    /\ conn = "open"
    /\ pc' = "for"
    /\ loop_i' = 0
    /\ last_error' = NoneError
    /\ result' = NoReturn
    /\ begun' = Begun(database)
    /\ out' = Out("transact", NoReturn)
    /\ UNCHANGED <<tableVars, fdbVars, kvVars, conn, database, retry_attempts, transaction>>

\* A clause for the half-open range of the loop.
InRangeInclusive(idx, n) == idx <= n

\* for i in 0..self.retry_attempts
InRange(idx, n) == idx < n

\* The head of the loop: a new transaction for the iteration, or the exit.
TransactFor ==
    /\ pc = "for"
    /\ IF InRange(loop_i, retry_attempts)
         THEN /\ transaction' = Transaction
              /\ begun' = [begun EXCEPT !.opened = @ + 1]
              /\ pc' = "f"
         ELSE /\ pc' = "exit"
              /\ UNCHANGED <<transaction, begun>>
    /\ UNCHANGED <<tableVars, fdbVars, kvVars, conn, database, retry_attempts, loop_i, last_error, result, out>>

\* The match on the closure's result with the error arm dropped.
AfterClosureCommitting(r) == "commit"

\* match f(&trx).await { Ok(t) => t, Err(trx_err) => { revert; return } }
AfterClosure(r) == IF r.tag = "Ok" THEN "commit" ELSE "revert"

\* The set and clear calls of a closure on the transaction it is handed:
\* each put or delete goes into the write batch the transaction has.
WriteInto(batch, w) == [k \in RdbKeys |-> IF w[k] = Untouched THEN batch[k] ELSE w[k]]

\* f(&trx).await: the closure buffers its writes in the transaction and
\* returns a value or an error.
TransactF(w, r) ==
    /\ pc = "f"
    /\ transaction' = [transaction EXCEPT !.w = WriteInto(@, w)]
    /\ result' = r
    /\ begun' = [begun EXCEPT !.invoked = @ + 1, !.batch = w]
    /\ pc' = AfterClosure(r)
    /\ UNCHANGED <<tableVars, fdbVars, kvVars, conn, database, retry_attempts, loop_i, last_error, out>>

\* Err(trx_err): trx.revert() and the return of its error, or of the
\* closure's.  The transaction is consumed either way.
TransactRevert(rolled_back, kind) ==
    /\ pc = "revert"
    /\ out' = Out("transact", IF rolled_back THEN ReturnErr(result.err)
                              ELSE ReturnErr(RdbTrxFailed(kind)))
    /\ begun' = [begun EXCEPT !.reverts = @ + 1]
    /\ transaction' = NoTransaction
    /\ pc' = "idle"
    /\ UNCHANGED <<tableVars, fdbVars, kvVars, conn, database, retry_attempts, loop_i, last_error, result>>

\* The let-else on trx.commit() and the match on e.kind(), with every
\* failure of a commit taken for a success.
CommitVerdictIgnoringFailure(e) == IF e \in {"Busy", "TryAgain"} THEN "continue" ELSE "return_ok"

\* The match on e.kind() with every kind of failure taken for a conflict.
CommitVerdictRetryingEverything(e) == IF e = "Ok" THEN "return_ok" ELSE "continue"

\* The let-else on trx.commit() with the success arm falling through to
\* the next round of the loop.
CommitVerdictRetryingSuccess(e) ==
    IF e \in {"Ok", "Busy", "TryAgain"} THEN "continue" ELSE "return_err"

\* let Err(e) = trx.commit().await else { return Ok(result) };
\* match e.kind() { Busy | TryAgain => continue, _ => return Err(..) }
CommitVerdict(e) ==
    IF e = "Ok" THEN "return_ok"
    ELSE IF e \in {"Busy", "TryAgain"} THEN "continue"
    ELSE "return_err"

\* trx.commit().await and what the loop does with its report `e`: "Ok" or
\* the kind of the error.  A commit that fails applies nothing.
TransactCommit(e) ==
    /\ pc = "commit"
    /\ database' = IF e = "Ok" THEN Applied(database, transaction.w) ELSE database
    /\ transaction' = NoTransaction
    /\ begun' = [begun EXCEPT !.commits = Append(@, e),
                              !.won = IF e = "Ok" THEN transaction ELSE @,
                              !.value = IF e = "Ok" THEN result.val ELSE @]
    /\ \E verdict \in {CommitVerdict(e)} :
          /\ out' = IF verdict = "return_ok" THEN Out("transact", ReturnOk(result.val))
                    ELSE IF verdict = "return_err"
                      THEN Out("transact", ReturnErr(RdbTrxFailed(e)))
                    ELSE out
          /\ last_error' = IF verdict = "continue" THEN e ELSE last_error
          /\ loop_i' = IF verdict = "continue" THEN loop_i + 1 ELSE loop_i
          /\ pc' = IF verdict = "continue" THEN "for" ELSE "idle"
    /\ UNCHANGED <<tableVars, fdbVars, kvVars, conn, retry_attempts, result>>

\* Err(last_error.unwrap().into()): the unwrap of None aborts the caller.
TransactExit ==
    /\ pc = "exit"
    /\ out' = Out("transact", IF last_error = NoneError THEN Panic
                              ELSE ReturnErr(RdbTrxFailed(last_error)))
    /\ pc' = "idle"
    /\ UNCHANGED <<tableVars, fdbVars, kvVars, conn, database, retry_attempts, loop_i, last_error, transaction, result, begun>>

\* What closures return.
ClosureResults == {ReturnOk(v) : v \in ClosureValues} \cup {ReturnErr(e) : e \in ClosureErrors}

NextRdb ==
    \/ \E n \in 0..MaxRetryAttempts, opened \in BOOLEAN :
          RdbEstablish([retry_attempts |-> n], opened)
    \/ TransactCall
    \/ TransactFor
    \/ \E w \in WriteBatches, r \in ClosureResults : TransactF(w, r)
    \/ \E rolled_back \in BOOLEAN, kind \in ErrorKinds : TransactRevert(rolled_back, kind)
    \/ \E e \in ErrorKinds \cup {"Ok"} : TransactCommit(e)
    \/ TransactExit

---------------------------------------------------------------------------
(* FdbConnection (src/new_db/custom_backends/fdb.rs): the process-wide     *)
(* network runner with start and stop, establish, and transact, which      *)
(* hands the closure to the retry primitive of the store, Database::run.   *)
(* The store and the closure are the surroundings: what every attempt of   *)
(* a call reports is an input of the call.                                 *)

\* Bound: the largest TransactionRetryLimit (max_repeat) configured.
MaxRepeat == 1

\* DbConnError::StartError and ::StopError with their messages, and
\* DbConnError::FdbError(#[from] FdbError).
StartError(msg) == <<"StartError", msg>>
StopError(msg) == <<"StopError", msg>>
DbConnFdbError(code) == <<"FdbError", code>>

\* Error codes of the store: a conflict, which its retry primitive retries,
\* and a timeout, which it does not.
FdbCodes == {"not_committed", "transaction_timed_out"}
IsRetryable(code) == code = "not_committed"

\* FdbBindingError: the error of a store call, and the error of the caller
\* in a box.
NonRetryableFdbError(code) == <<"NonRetryableFdbError", code>>
CustomError(e) == <<"CustomError", e>>

\* FdbBindingError::get_fdb_error: the code of the store error in it.
get_fdb_error(e) == IF e[1] = "NonRetryableFdbError" THEN e[2] ELSE "none"

\* TransactionError::FdbTrxFailed(#[from] FdbBindingError)
FdbTrxFailed(e) == <<"FdbTrxFailed">> \o e

\* The errors of a closure: ClosureError is FdbBindingError.  The calls on
\* the transaction give it the error of the store (`e.into()`), and its
\* own errors are boxed.
FdbClosureErrors ==
    {NonRetryableFdbError(code) : code \in FdbCodes} \cup {CustomError("IndexAlreadyExists")}

\* What one attempt of a call reports: the result of the closure and, when
\* the closure succeeded, of the commit ("none": no commit is called).
Attempts ==
    {[f |-> ReturnOk("v1"), commit |-> c] : c \in {"Ok"} \cup FdbCodes}
        \cup {[f |-> ReturnErr(e), commit |-> "none"] : e \in FdbClosureErrors}

\* A cluster_path is a string: here the list of its pieces.
ClusterPaths ==
    {<<"fdb:", "/etc/fdb.cluster">>, <<"/etc/fdb.cluster">>,
     <<"fdb:", "/missing">>, <<"/missing">>}

\* The files that exist.
Files == {<<"/etc/fdb.cluster">>}

\* str::strip_prefix("fdb:").unwrap_or_else(|| &config.cluster_path)
strip_prefix(path) == IF path # <<>> /\ path[1] = "fdb:" THEN Tail(path) ELSE path

\* Path::new(..).is_file()
is_file(path) == path \in Files

\* FdbConfig
FdbConfigs == [cluster_path : ClusterPaths, max_repeat : 0..MaxRepeat]

\* No connection yet.
NoDatabase == [open |-> FALSE, max_repeat |-> 0]

\* What the last call took and what it returned, with the number of
\* closure invocations of a transact.
FdbIn(path, attempts) == [cluster_path |-> path, attempts |-> attempts]
FdbOut(op, r, invoked) == [op |-> op, r |-> r, invoked |-> invoked]

FdbInit ==
    /\ network_runner = "unbooted"
    /\ dropped = 0
    /\ fdb_database = NoDatabase
    /\ fdb_in = FdbIn(<<>>, <<>>)
    /\ fdb_out = FdbOut("none", NoReturn, 0)

\* LazyLock: the first use of FDB_NETWORK_RUNNER boots the network and
\* holds Some(network); "stopped" is None.
Forced(runner) == IF runner = "unbooted" THEN "running" ELSE runner

\* start that boots a new runner when the old one was taken.
start_rebooting(runner) == [r |-> ReturnOk(""), runner |-> "running"]

\* start(): the result and the runner afterwards.
start(runner) ==
    IF Forced(runner) = "stopped"
      THEN [r |-> ReturnErr(StartError("FoundationDB network runner already stopped")),
            runner |-> "stopped"]
      ELSE [r |-> ReturnOk(""), runner |-> Forced(runner)]

\* stop that takes whatever the lock holds.
stop_always_ok(runner) ==
    [r |-> ReturnOk(""), runner |-> "stopped", dropped |-> 1]

\* stop(): the result, the runner afterwards and the runners it dropped.
stop(runner) ==
    IF Forced(runner) = "stopped"
      THEN [r |-> ReturnErr(StartError("FoundationDB network runner already stopped")),
            runner |-> "stopped", dropped |-> 0]
      ELSE [r |-> ReturnOk(""), runner |-> "stopped", dropped |-> 1]

\* establish(config): `created` is the verdict of Database::from_path and
\* of the two set_option calls, "Ok" or the code of their FdbError.
FdbConnection_establish(config, created) ==
    LET cluster_path_str == strip_prefix(config.cluster_path)
    IN  IF is_file(cluster_path_str)
          THEN [r |-> ReturnErr(EstablishFail), database |-> NoDatabase]
        ELSE IF created # "Ok"
          THEN [r |-> ReturnErr(DbConnFdbError(created)), database |-> NoDatabase]
        ELSE [r |-> ReturnOk(""),
              database |-> [open |-> TRUE, max_repeat |-> config.max_repeat]]

RECURSIVE run(_, _, _)
\* Database::run, from the k-th invocation of the closure on: an error of
\* the closure that holds no store error is returned as it is; a store
\* error of the closure or of the commit goes to on_error, which lets the
\* loop go round again while the error is retryable and the retry limit
\* is not used up.
run(attempts, k, limit) ==
    LET a == attempts[k]
        code == IF a.f.tag = "Err" THEN get_fdb_error(a.f.err) ELSE a.commit
    IN  IF a.f.tag = "Err" /\ code = "none" THEN [r |-> a.f, invoked |-> k]
        ELSE IF a.f.tag = "Ok" /\ code = "Ok" THEN [r |-> a.f, invoked |-> k]
        ELSE IF IsRetryable(code) /\ k <= limit THEN run(attempts, k + 1, limit)
        ELSE [r |-> ReturnErr(NonRetryableFdbError(code)), invoked |-> k]

\* A conversion that hands every error of the closure to the store as a
\* conflict.
closure_error_as_conflict(e) == NonRetryableFdbError("not_committed")

\* f(&trx).map_err(|e| e.into()): FdbBindingError into FdbBindingError.
closure_error_into(e) == e

\* transact(f): self.database.run(..).await? and Ok(res).  The `?` turns
\* the FdbBindingError into TransactionError::FdbTrxFailed.
FdbConnection_transact(attempts, max_repeat) ==
    LET handed == [k \in DOMAIN attempts |->
                      [attempts[k] EXCEPT !.f = IF @.tag = "Err"
                                                  THEN ReturnErr(closure_error_into(@.err))
                                                  ELSE @]]
        res == run(handed, 1, max_repeat)
    IN  IF res.r.tag = "Err"
          THEN [r |-> ReturnErr(FdbTrxFailed(res.r.err)), invoked |-> res.invoked]
          ELSE res

FdbStart ==
    \E s \in {start(network_runner)} :
        /\ network_runner' = s.runner
        /\ fdb_in' = FdbIn(<<>>, <<>>)
        /\ fdb_out' = FdbOut("start", s.r, 0)
        /\ UNCHANGED <<tableVars, rdbVars, kvVars, dropped, fdb_database>>

FdbStop ==
    \E s \in {stop(network_runner)} :
        /\ network_runner' = s.runner
        /\ dropped' = dropped + s.dropped
        /\ fdb_in' = FdbIn(<<>>, <<>>)
        /\ fdb_out' = FdbOut("stop", s.r, 0)
        /\ UNCHANGED <<tableVars, rdbVars, kvVars, fdb_database>>

FdbEstablish(config, created) ==
    \E e \in {FdbConnection_establish(config, created)} :
        /\ fdb_database' = IF e.r.tag = "Ok" THEN e.database ELSE fdb_database
        /\ fdb_in' = FdbIn(config.cluster_path, <<>>)
        /\ fdb_out' = FdbOut("establish", e.r, 0)
        /\ UNCHANGED <<tableVars, rdbVars, kvVars, network_runner, dropped>>

FdbTransact(attempts) ==
    /\ fdb_database.open
    /\ \E t \in {FdbConnection_transact(attempts, fdb_database.max_repeat)} :
          /\ fdb_in' = FdbIn(<<>>, attempts)
          /\ fdb_out' = FdbOut("transact", t.r, t.invoked)
    /\ UNCHANGED <<tableVars, rdbVars, kvVars, network_runner, dropped, fdb_database>>

NextFdb ==
    \/ FdbStart
    \/ FdbStop
    \/ \E config \in FdbConfigs, created \in {"Ok", "transaction_timed_out"} :
          FdbEstablish(config, created)
    \/ \E attempts \in [1..(fdb_database.max_repeat + 1) -> Attempts] :
          FdbTransact(attempts)

---------------------------------------------------------------------------
(* RdbKeyspace (src/new_db/custom_backends/rdb.rs): a keyspace is its      *)
(* prefix, a byte string.  Bytes are the numbers 0..255, of which the      *)
(* model keeps the three that the code names: 0x00 and 0xFF of `range`     *)
(* and 0x1F, the separator.  Byte strings are sequences of bytes and are   *)
(* ordered as Rust orders slices, lexicographically.                       *)

\* Longest byte string handed to from_bytes, keyspace and pack.
MaxLen == 1

Bytes == {0, 31, 255}

ByteStrings == UNION {[1..n -> Bytes] : n \in 0..MaxLen}

\* a < b on &[u8]
BytesLess(a, b) ==
    \E n \in 1..Len(b) :
        /\ \A j \in 1..(n - 1) : j <= Len(a) /\ a[j] = b[j]
        /\ n > Len(a) \/ a[n] < b[n]

\* key.strip_prefix(prefix).is_some()
StartsWith(bytes, prefix) ==
    /\ Len(prefix) <= Len(bytes)
    /\ SubSeq(bytes, 1, Len(prefix)) = prefix

\* Option<Vec<u8>>
NoKey == [some |-> FALSE, v |-> <<>>]
SomeKey(bytes) == [some |-> TRUE, v |-> bytes]

\* const SEPARATOR: &[u8] = &[0x1F]
SEPARATOR == <<31>>

\* RdbKeyspace::all()
all == <<>>

from_bytes_bare(bytes) == bytes

\* RdbKeyspace::from_bytes(bytes)
from_bytes(bytes) == bytes \o SEPARATOR

\* self.as_bytes()
as_bytes(self) == self

\* self.keyspace(bytes)
keyspace(self, bytes) == from_bytes(self \o bytes)

\* self.pack(bytes)
pack(self, bytes) == self \o bytes

unpack_unchecked(self, bytes) ==
    IF Len(self) <= Len(bytes)
      THEN SomeKey(SubSeq(bytes, Len(self) + 1, Len(bytes)))
      ELSE NoKey

\* self.unpack(key)
unpack(self, bytes) ==
    IF StartsWith(bytes, self)
      THEN SomeKey(SubSeq(bytes, Len(self) + 1, Len(bytes)))
      ELSE NoKey

\* self.range()
range(self) == <<self \o <<0>>, self \o <<255>>>>

\* The keyspaces two siblings are derived from.
Parents == {all} \cup {from_bytes(<<b>>) : b \in Bytes}

\* The keys handed to unpack: those packed under one of the siblings, and
\* short keys of any content.
KeysUnder(sib) == {pack(sib[j], x) : j \in {1, 2}, x \in ByteStrings}
AnyKeys(sib) == KeysUnder(sib) \cup ByteStrings

KsCall(op, on, arg, bytes, opt, interval) ==
    [op |-> op, on |-> on, arg |-> arg, key |-> bytes, opt |-> opt, range |-> interval]

NoInterval == <<<<>>, <<>>>>
NoCall == KsCall("none", 1, <<>>, <<>>, NoKey, NoInterval)

KsInit ==
    /\ ks_parent = all
    /\ ks_child = <<<<>>, <<>>>>
    /\ ks_sib = <<all, all>>
    /\ ks_how = "all"
    /\ ks_call = NoCall

\* parent.keyspace(c1) and parent.keyspace(c2)
KsKeyspace ==
    /\ ks_sib' = <<keyspace(ks_parent, ks_child[1]), keyspace(ks_parent, ks_child[2])>>
    /\ ks_how' = "keyspace"
    /\ ks_call' = NoCall
    /\ UNCHANGED <<tableVars, rdbVars, fdbVars, ks_parent, ks_child, iter_db, iter_out, trxs, got, sets, threads>>

\* RdbKeyspace::from_bytes(b1) and RdbKeyspace::from_bytes(b2)
KsFromBytes ==
    /\ ks_sib' = <<from_bytes(ks_child[1]), from_bytes(ks_child[2])>>
    /\ ks_how' = "from_bytes"
    /\ ks_call' = NoCall
    /\ UNCHANGED <<tableVars, rdbVars, fdbVars, ks_parent, ks_child, iter_db, iter_out, trxs, got, sets, threads>>

\* pack, unpack and range change nothing, and what a call returns depends
\* on no call before it: the model follows one call on every pair of
\* siblings, and derives siblings anew after it.
KsFrame ==
    /\ ks_call = NoCall
    /\ UNCHANGED <<tableVars, rdbVars, fdbVars, ks_parent, ks_child, ks_sib, ks_how,
                   iter_db, iter_out, trxs, got, sets, threads>>

KsPack(on, bytes) ==
    /\ ks_call' = KsCall("pack", on, bytes, pack(ks_sib[on], bytes), NoKey, NoInterval)
    /\ KsFrame

KsUnpack(on, bytes) ==
    /\ ks_call' = KsCall("unpack", on, bytes, <<>>, unpack(ks_sib[on], bytes), NoInterval)
    /\ KsFrame

KsRange(on) ==
    /\ ks_call' = KsCall("range", on, <<>>, <<>>, NoKey, range(ks_sib[on]))
    /\ KsFrame

NextKeyspace ==
    \/ KsKeyspace
    \/ KsFromBytes
    \/ \E on \in {1, 2}, bytes \in ByteStrings : KsPack(on, bytes)
    \/ \E on \in {1, 2}, bytes \in AnyKeys(ks_sib) : KsUnpack(on, bytes)
    \/ \E on \in {1, 2} : KsRange(on)

---------------------------------------------------------------------------
(* RdbTransaction read through its iterators (rdb.rs): get_range seeks an  *)
(* iterator of the RocksDB transaction and walks it, get_space walks its   *)
(* prefix iterator.  Both run over what the transaction sees, the          *)
(* committed pairs under its own writes.  `establish` opens the database   *)
(* with open_default, that is without a prefix extractor, and without one  *)
(* RocksDB ignores prefix_same_as_start: the prefix iterator seeks to the  *)
(* prefix and then runs to the end of the database.                        *)

\* The keys the database may hold: one before the prefix of
\* from_bytes(<<0>>), two under it, one after it.
IterKeys == {<<0>>, <<0, 31>>, <<0, 31, 0>>, <<255>>}

\* The bounds handed to get_range: the keys, and two bounds that are no key.
IterBounds == IterKeys \cup {<<>>, <<31>>}

\* The keyspaces handed to get_space and clear_space.
IterSpaces == {all, from_bytes(<<0>>), from_bytes(<<255>>)}

IterStores == [IterKeys -> RdbVals \cup {Absent}]

Stored(store) == {k \in IterKeys : store[k] # Absent}

\* The smallest of a non-empty set of byte strings.
Smallest(keys) == CHOOSE k \in keys : \A other \in keys \ {k} : BytesLess(k, other)

RECURSIVE Ascending(_)
\* A set of keys in the order a forward iterator yields them.
Ascending(keys) ==
    IF keys = {} THEN <<>>
    ELSE <<Smallest(keys)>> \o Ascending(keys \ {Smallest(keys)})

Reversed(s) == [n \in 1..Len(s) |-> s[Len(s) + 1 - n]]

\* self.transaction.iterator(IteratorMode::From(key, direction)): forward,
\* the stored keys from the first one at or after `key` on; in reverse,
\* the stored keys from the last one at or before `key` down.
iterator(store, bytes, direction) ==
    IF direction = "Forward"
      THEN Ascending({k \in Stored(store) : ~BytesLess(k, bytes)})
      ELSE Reversed(Ascending({k \in Stored(store) : ~BytesLess(bytes, k)}))

RECURSIVE TakeUntil(_, _, _)
\* The for loop of get_range: it pushes the keys the iterator yields and
\* breaks at the first one beyond the target.
TakeUntil(keys, target, forward) ==
    IF keys = <<>> THEN <<>>
    ELSE IF forward /\ BytesLess(target, Head(keys)) THEN <<>>
    ELSE IF ~forward /\ BytesLess(Head(keys), target) THEN <<>>
    ELSE <<Head(keys)>> \o TakeUntil(Tail(keys), target, forward)

\* (key, value).into() of every pushed key
KeyValues(store, keys) == [n \in 1..Len(keys) |-> <<keys[n], store[keys[n]]>>]

IterOk(kvs) == [tag |-> "Ok", kvs |-> kvs]
IterPanic == [tag |-> "panic", kvs |-> <<>>]

\* RdbTransaction::get_range(from_key, to_key)
get_range(store, from_key, to_key) ==
    LET forward == BytesLess(from_key, to_key)
        mode == IF forward THEN iterator(store, from_key, "Forward")
                           ELSE iterator(store, to_key, "Reverse")
        target == IF forward THEN to_key ELSE from_key
    IN  IterOk(KeyValues(store, TakeUntil(mode, target, forward)))

\* self.trx.get_ranges_keyvalues(RangeOption::from((begin, end)), false):
\* the key selectors are first_greater_or_equal of each bound, so the
\* stream yields, in ascending order, the stored keys at or after `begin`
\* and before `end`, and nothing when begin is not below end.
get_ranges_keyvalues(store, begin, end) ==
    Ascending({k \in Stored(store) : ~BytesLess(k, begin) /\ BytesLess(k, end)})

\* FdbTransaction::get_range(from_key, to_key)
FdbTransaction_get_range(store, from_key, to_key) ==
    IterOk(KeyValues(store, get_ranges_keyvalues(store, from_key, to_key)))

\* self.transaction.prefix_iterator(prefix)
prefix_iterator(store, prefix) == iterator(store, prefix, "Forward")

\* RdbTransaction::get_space(keyspace)
get_space(store, space) ==
    IterOk(KeyValues(store, prefix_iterator(store, as_bytes(space))))

\* RdbTransaction::clear_space(keyspace): todo!()
clear_space(store, space) == [r |-> IterPanic, store |-> store]

IterCall(op, from_key, to_key, r) ==
    [op |-> op, from |-> from_key, to |-> to_key, r |-> r]

IterInit ==
    /\ iter_db = [k \in IterKeys |-> Absent]
    /\ iter_out = IterCall("none", <<>>, <<>>, IterOk(<<>>))

IterFrame == UNCHANGED <<tableVars, rdbVars, fdbVars, ksVars, trxs, got, sets, threads>>

\* trx.set(key, value): the iterators of the transaction see its writes
IterSet(bytes, value) ==
    /\ iter_db' = [iter_db EXCEPT ![bytes] = value]
    /\ iter_out' = IterCall("set", bytes, bytes, IterOk(<<>>))
    /\ IterFrame

\* trx.clear(key)
IterClear(bytes) ==
    /\ iter_db' = [iter_db EXCEPT ![bytes] = Absent]
    /\ iter_out' = IterCall("clear", bytes, bytes, IterOk(<<>>))
    /\ IterFrame

IterGetRange(from_key, to_key) ==
    /\ iter_out' = IterCall("get_range", from_key, to_key, get_range(iter_db, from_key, to_key))
    /\ UNCHANGED iter_db
    /\ IterFrame

\* The keyspace is kept in `from`.
IterGetSpace(space) ==
    /\ iter_out' = IterCall("get_space", as_bytes(space), <<>>, get_space(iter_db, space))
    /\ UNCHANGED iter_db
    /\ IterFrame

IterClearSpace(space) ==
    \E c \in {clear_space(iter_db, space)} :
        /\ iter_db' = c.store
        /\ iter_out' = IterCall("clear_space", as_bytes(space), <<>>, c.r)
        /\ IterFrame

NextIter ==
    \/ \E bytes \in IterKeys, value \in RdbVals : IterSet(bytes, value)
    \/ \E bytes \in IterKeys : IterClear(bytes)
    \/ \E from_key \in IterBounds, to_key \in IterBounds : IterGetRange(from_key, to_key)
    \/ \E space \in IterSpaces : IterGetSpace(space)
    \/ \E space \in IterSpaces : IterClearSpace(space)

---------------------------------------------------------------------------
(* RocksDB transactions side by side (rdb.rs): every iteration of the loop *)
(* of `transact` opens a transaction with self.database.transaction(),     *)
(* and two calls of transact on one connection have theirs open at the     *)
(* same time.  The transaction is opened with the default options, so no   *)
(* snapshot is set: a read that finds nothing in the write batch of the    *)
(* transaction reads the database as committed at the time of the read.    *)
(* put and delete fill the write batch, commit applies it in one write,    *)
(* rollback and drop discard it.                                           *)

Tids == {"T1", "T2"}

\* The value the closures write.
Written == {"a"}

\* What a commit reports.
CommitResults == {"Ok", "Busy", "IOError"}

\* A transaction and, as history, the database it was opened on.
Opened(store) == [open |-> TRUE, w |-> EmptyBatch, snap |-> store]
Closed == [open |-> FALSE, w |-> EmptyBatch, snap |-> [k \in RdbKeys |-> Absent]]

Got(t, op, k, r) == [t |-> t, op |-> op, key |-> k, r |-> r]

\* RdbTransaction::get(key): self.transaction.get_pinned(key)
RdbTransaction_get(trx, store, k) ==
    IF trx.w[k] # Untouched THEN trx.w[k] ELSE store[k]

set_writing_through(trx, store, k, value) ==
    [trx |-> trx, store |-> [store EXCEPT ![k] = value]]

\* RdbTransaction::set(key, value): self.transaction.put(key, value)
RdbTransaction_set(trx, store, k, value) ==
    [trx |-> [trx EXCEPT !.w[k] = value], store |-> store]

\* RdbTransaction::clear(key): self.transaction.delete(key)
RdbTransaction_clear(trx, store, k) ==
    [trx |-> [trx EXCEPT !.w[k] = Absent], store |-> store]

\* RdbTransaction::commit(): self.transaction.commit()
RdbTransaction_commit(trx, store, e) ==
    IF e = "Ok" THEN Applied(store, trx.w) ELSE store

\* RdbTransaction::revert(): self.transaction.rollback()
RdbTransaction_revert(trx, store) == store

TrxsInit ==
    /\ trxs = [t \in Tids |-> Closed]
    /\ got = Got("T1", "none", "k1", "")

TrxsFrame ==
    UNCHANGED <<tableVars, fdbVars, ksVars, iter_db, iter_out, sets, threads,
                conn, retry_attempts, pc, loop_i, last_error, transaction, result, out, begun>>

\* RdbTransaction { transaction: self.database.transaction(), .. }
RdbBegin(t) ==
    /\ ~trxs[t].open
    /\ trxs' = [trxs EXCEPT ![t] = Opened(database)]
    /\ got' = Got(t, "begin", "k1", "Ok")
    /\ UNCHANGED database
    /\ TrxsFrame

RdbGet(t, k) ==
    /\ trxs[t].open
    /\ got' = Got(t, "get", k, RdbTransaction_get(trxs[t], database, k))
    /\ UNCHANGED <<trxs, database>>
    /\ TrxsFrame

RdbSet(t, k, value) ==
    /\ trxs[t].open
    /\ \E s \in {RdbTransaction_set(trxs[t], database, k, value)} :
          /\ trxs' = [trxs EXCEPT ![t] = s.trx]
          /\ database' = s.store
    /\ got' = Got(t, "set", k, "Ok")
    /\ TrxsFrame

RdbClear(t, k) ==
    /\ trxs[t].open
    /\ \E s \in {RdbTransaction_clear(trxs[t], database, k)} :
          /\ trxs' = [trxs EXCEPT ![t] = s.trx]
          /\ database' = s.store
    /\ got' = Got(t, "clear", k, "Ok")
    /\ TrxsFrame

\* commit(self) consumes the transaction whatever it reports
RdbCommit(t, e) ==
    /\ trxs[t].open
    /\ database' = RdbTransaction_commit(trxs[t], database, e)
    /\ trxs' = [trxs EXCEPT ![t] = Closed]
    /\ got' = Got(t, "commit", "k1", e)
    /\ TrxsFrame

\* revert(self)
RdbRevert(t) ==
    /\ trxs[t].open
    /\ database' = RdbTransaction_revert(trxs[t], database)
    /\ trxs' = [trxs EXCEPT ![t] = Closed]
    /\ got' = Got(t, "revert", "k1", "Ok")
    /\ TrxsFrame

\* The transaction goes out of scope without commit or revert.
RdbDrop(t) ==
    /\ trxs[t].open
    /\ trxs' = [trxs EXCEPT ![t] = Closed]
    /\ got' = Got(t, "drop", "k1", "Ok")
    /\ UNCHANGED database
    /\ TrxsFrame

NextTrxs ==
    \/ \E t \in Tids : RdbBegin(t)
    \/ \E t \in Tids, k \in RdbKeys : RdbGet(t, k)
    \/ \E t \in Tids, k \in RdbKeys, value \in Written : RdbSet(t, k, value)
    \/ \E t \in Tids, k \in RdbKeys : RdbClear(t, k)
    \/ \E t \in Tids, e \in CommitResults : RdbCommit(t, e)
    \/ \E t \in Tids : RdbRevert(t)
    \/ \E t \in Tids : RdbDrop(t)

---------------------------------------------------------------------------
(* Calls of the generated `set` side by side (src/db/nondiesel/fdb.rs).    *)
(* Every call owns a FoundationDB transaction.  Its reads are              *)
(* trx.get(key, false): not snapshot reads, so every key read becomes a    *)
(* read conflict key, and the store refuses the commit of a transaction    *)
(* when a key it read was written by a commit made after its read          *)
(* version, which the first read fixes.  The calls take their steps at     *)
(* their awaits: the index reads and writes, the writes of the cells, the  *)
(* commit.                                                                 *)

Cids == {"A", "B"}

\* The keys one call of set_unique_index or set_multi_index reads.
IndexReads(trx, index_subspace, new_index, table_key, ser_key_tuple) ==
    LET old_index == TrxGet(trx, table_key)
        old_index_key == Pack(index_subspace, old_index)
        old_index_pk == IF old_index = None THEN None ELSE TrxGet(trx, old_index_key)
        returns_early == old_index_pk # None
                           /\ (old_index_pk # ser_key_tuple \/ old_index = new_index)
    IN  {table_key}
          \cup (IF old_index = None THEN {} ELSE {old_index_key})
          \cup (IF returns_early THEN {} ELSE {Pack(index_subspace, new_index)})

ReadConflictKeysOfSnapshotReads(self, trx) == {}

\* The read conflict keys of a call of `set` that reaches its commit.
ReadConflictKeys(self, trx) ==
    UNION ({IndexReads(trx, u_index_col_subspace(U_INDEX_COLS[n]), self.attr[U_INDEX_COLS[n]],
                       CellKey(self._subspace, U_INDEX_COLS[n]), self._serialized_key_tuple)
              : n \in 1..Len(U_INDEX_COLS)}
           \cup
           {IndexReads(trx, m_index_col_subspace(M_INDEX_COLS[n]), self.attr[M_INDEX_COLS[n]],
                       CellKey(self._subspace, M_INDEX_COLS[n]), self._serialized_key_tuple)
              : n \in 1..Len(M_INDEX_COLS)})

\* trx.commit() that the store accepts: the writes of the transaction go
\* onto the store as it is committed then.
CommitOnto(store, trx) == Committed([trx EXCEPT !.snap = store])

\* The stores the calls may start on: empty, or holding one row.
StartStores == {<<>>} \cup {set(self, TrxNew(<<>>), TRUE).db : self \in Rows}

IdleCall ==
    [pc |-> "idle", self |-> NoRow, trx |-> TrxNew(<<>>), reads |-> {}, stale |-> {},
     status |-> "none"]

SetsInit == sets = [start |-> <<>>, calls |-> [c \in Cids |-> IdleCall]]

SetsFrame ==
    UNCHANGED <<tbl, ret, rdbVars, fdbVars, ksVars, iter_db, iter_out, trxs, got, threads>>

\* row.set(trx) is called with a transaction of its own
SetsCall(c, self) ==
    /\ sets.calls[c].pc = "idle"
    /\ sets' = [sets EXCEPT !.calls[c].pc = "called", !.calls[c].self = self]
    /\ UNCHANGED db
    /\ SetsFrame

\* set_unique_index and set_multi_index of every index column, on the
\* store as committed at the first read
SetsIndices(c) ==
    LET call == sets.calls[c]
        began == TrxNew(db)
        u == set_unique_indices(call.self, began, 1)
        m == IF u.err = "Ok" THEN set_multi_indices(call.self, u.trx, 1) ELSE u
    IN  /\ call.pc = "called"
        /\ sets' = [sets EXCEPT !.calls[c] =
                      IF m.err # "Ok"
                        THEN [call EXCEPT !.pc = "returned", !.status = m.err]
                        ELSE [call EXCEPT !.pc = "indexed", !.trx = m.trx,
                                          !.reads = ReadConflictKeys(call.self, began)]]
        /\ UNCHANGED db
        /\ SetsFrame

\* $( trx.set(cell, value); )+
SetsCells(c) ==
    LET call == sets.calls[c]
    IN  /\ call.pc = "indexed"
        /\ sets' = [sets EXCEPT !.calls[c].pc = "written",
                                !.calls[c].trx = set_cells(call.self, call.trx, 1)]
        /\ UNCHANGED db
        /\ SetsFrame

\* trx.commit(): refused when a key the call read has been written since,
\* and for any reason of the store's (`ok`)
SetsCommit(c, ok) ==
    LET call == sets.calls[c]
        accepted == ok /\ call.reads \cap call.stale = {}
        Run(d) == sets.calls[d].pc \in {"indexed", "written"}
    IN  /\ call.pc = "written"
        /\ db' = IF accepted THEN CommitOnto(db, call.trx) ELSE db
        /\ sets' = [sets EXCEPT !.calls =
                      [d \in Cids |->
                         IF d = c
                           THEN [call EXCEPT !.pc = "returned",
                                   !.status = IF accepted THEN "Ok" ELSE "TrxCommitFail"]
                         ELSE IF accepted /\ Run(d)
                           THEN [sets.calls[d] EXCEPT !.stale = @ \cup DOMAIN call.trx.w]
                         ELSE sets.calls[d]]]
        /\ SetsFrame

NextSets ==
    \/ \E c \in Cids, self \in Rows : SetsCall(c, self)
    \/ \E c \in Cids : SetsIndices(c)
    \/ \E c \in Cids : SetsCells(c)
    \/ \E c \in Cids, ok \in BOOLEAN : SetsCommit(c, ok)

---------------------------------------------------------------------------
(* start and stop called from several threads.  FDB_NETWORK_RUNNER is a    *)
(* Mutex: a call waits for the lock, holds it from `lock()` to its return  *)
(* and sees through the guard what the lock holds.  No call panics while   *)
(* it holds the lock, so the lock is never poisoned.                       *)

\* Bound: how many calls the threads make in all.
MaxCalls == 4

Tnames == {"t1", "t2", "t3"}

\* A thread outside a call, and an entry of the lock order: who acquired
\* the lock, for which call, and what the call returned ("none" until then).
IdleThread == [pc |-> "idle", op |-> "none", seen |-> "unbooted", at |-> 0]
Locked(t, op, tag) == [t |-> t, op |-> op, tag |-> tag]

ThreadsInit ==
    threads = [mutex |-> "free", th |-> [t \in Tnames |-> IdleThread], lock_order |-> <<>>]

ThreadsFrame ==
    UNCHANGED <<tableVars, rdbVars, ksVars, iter_db, iter_out, trxs, got, sets,
                fdb_database, fdb_in, fdb_out>>

\* A lock that is granted whoever holds it.
CanLockAlways(mutex) == TRUE

\* FDB_NETWORK_RUNNER.lock(): granted when no thread holds the mutex.
CanLock(mutex) == mutex = "free"

\* A thread calls start or stop and waits for the lock.
ThCall(t, op) ==
    /\ threads.th[t].pc = "idle"
    /\ Len(threads.lock_order)
         + Cardinality({u \in Tnames : threads.th[u].pc = "waiting"}) < MaxCalls
    /\ threads' = [threads EXCEPT !.th[t] = [IdleThread EXCEPT !.pc = "waiting", !.op = op]]
    /\ UNCHANGED <<network_runner, dropped>>
    /\ ThreadsFrame

\* The thread acquires the lock; the first use of the static boots the
\* network.  The guard shows it what the lock holds.
ThLock(t) ==
    /\ threads.th[t].pc = "waiting"
    /\ CanLock(threads.mutex)
    /\ network_runner' = Forced(network_runner)
    /\ threads' = [threads EXCEPT
          !.mutex = t,
          !.lock_order = Append(@, Locked(t, threads.th[t].op, "none")),
          !.th[t] = [@ EXCEPT !.pc = "locked", !.seen = Forced(network_runner),
                              !.at = Len(threads.lock_order) + 1]]
    /\ UNCHANGED dropped
    /\ ThreadsFrame

\* The body of the call on what the guard showed, and the return, which
\* releases the lock.
ThReturn(t) ==
    /\ threads.th[t].pc = "locked"
    /\ \E me \in {threads.th[t]} :
          \E s \in {IF me.op = "start" THEN start(me.seen) @@ [dropped |-> 0]
                    ELSE stop(me.seen)} :
              /\ network_runner' = s.runner
              /\ dropped' = dropped + s.dropped
              /\ threads' = [threads EXCEPT
                    !.mutex = "free",
                    !.lock_order[me.at].tag = s.r.tag,
                    !.th[t] = IdleThread]
    /\ ThreadsFrame

NextThreads ==
    \/ \E t \in Tnames, op \in {"start", "stop"} : ThCall(t, op)
    \/ \E t \in Tnames : ThLock(t)
    \/ \E t \in Tnames : ThReturn(t)

\* What the parts outside a specification hold.
KvInit == KsInit /\ IterInit /\ TrxsInit /\ SetsInit /\ ThreadsInit

InitKeyspace ==
    /\ tbl = CHOOSE d \in Declarations : d.unique = <<>> /\ d.multi = <<>>
    /\ TableInit
    /\ RdbInit
    /\ FdbInit
    /\ ks_parent \in Parents
    /\ ks_child \in ByteStrings \X ByteStrings
    /\ ks_sib = <<all, all>>
    /\ ks_how = "all"
    /\ ks_call = NoCall
    /\ IterInit
    /\ TrxsInit
    /\ SetsInit
    /\ ThreadsInit

SpecKeyspace == InitKeyspace /\ [][NextKeyspace]_vars

InitIter ==
    /\ tbl = CHOOSE d \in Declarations : d.unique = <<>> /\ d.multi = <<>>
    /\ TableInit
    /\ RdbInit
    /\ FdbInit
    /\ KvInit

SpecIter == InitIter /\ [][NextIter]_vars

\* The transactions side by side start on the empty database too.
InitTrxs == InitIter

SpecTrxs == InitTrxs /\ [][NextTrxs]_vars

InitSets ==
    /\ tbl \in Declarations
    /\ db \in StartStores
    /\ ret = Returned("none", "Ok")
    /\ RdbInit
    /\ FdbInit
    /\ KsInit
    /\ IterInit
    /\ TrxsInit
    /\ sets = [start |-> db, calls |-> [c \in Cids |-> IdleCall]]
    /\ ThreadsInit

SpecSets == InitSets /\ [][NextSets]_vars

\* The connection alone, on a table layer that stays as it began.
InitRdb ==
    /\ tbl = CHOOSE d \in Declarations : d.unique = <<>> /\ d.multi = <<>>
    /\ TableInit
    /\ RdbInit
    /\ FdbInit
    /\ KvInit

SpecRdb == InitRdb /\ [][NextRdb]_vars

\* The runtime polls a call of transact until it returns.
FairSpecRdb == SpecRdb /\ WF_vars(NextRdb)

\* FdbConnection alone.
InitFdb ==
    /\ tbl = CHOOSE d \in Declarations : d.unique = <<>> /\ d.multi = <<>>
    /\ TableInit
    /\ RdbInit
    /\ FdbInit
    /\ KvInit

SpecFdb == InitFdb /\ [][NextFdb]_vars

\* The threads start with the runner not yet booted.
InitThreads == InitFdb

SpecThreads == InitThreads /\ [][NextThreads]_vars

---------------------------------------------------------------------------
(* The state machine: every step is one call of one generated function in *)
(* a transaction of its own, begun on the committed store.  `ret` keeps    *)
(* which writing function was called last and what it returned; the reads  *)
(* change nothing, and what they return is a function of the store.        *)

Init ==
    /\ tbl \in Declarations
    /\ TableInit
    /\ RdbInit
    /\ FdbInit
    /\ KvInit

\* A row a caller holds with the given key tuple.  delete and set_<attr>
\* read nothing else of self.
Holding(keys) ==
    [_subspace |-> keys, _saved |-> TRUE, _serialized_key_tuple |-> SerKeyTuple(keys),
     attr |-> [c \in Cols |-> Ser(CHOOSE v \in TypeOf(c) :
                                     \A i \in 1..Len(PK_COLS) : PK_COLS[i] = c => v = keys[i])]]

Set(self, commit_ok) ==
    \E r \in {set(self, TrxNew(db), commit_ok)} :
        /\ db' = r.db
        /\ ret' = Returned("set", r.status)
        /\ UNCHANGED <<tbl, rdbVars, fdbVars, kvVars>>

Delete(self, commit_ok) ==
    \E r \in {delete(self, TrxNew(db), commit_ok)} :
        /\ db' = r.db
        /\ ret' = Returned("delete", r.status)
        /\ UNCHANGED <<tbl, rdbVars, fdbVars, kvVars>>

Get(keys) ==
    /\ get(TrxNew(db), keys).status \in {"Some", "None", "panic"}
    /\ UNCHANGED vars

GetByUnique(col, value) ==
    /\ InSeq(col, U_INDEX_COLS)
    /\ get_by_unique(TrxNew(db), col, value).status \in {"Some", "None", "panic"}
    /\ UNCHANGED vars

GetByMulti(col, value) ==
    /\ InSeq(col, M_INDEX_COLS)
    /\ get_by_multi(TrxNew(db), col, value).status \in {"Some", "None", "panic"}
    /\ UNCHANGED vars

SetAttr(self, col, value, commit_ok) ==
    \E r \in {set_attr(self, TrxNew(db), col, value, commit_ok)} :
        /\ db' = r.db
        /\ ret' = Returned("set_attr", r.status)
        /\ UNCHANGED <<tbl, rdbVars, fdbVars, kvVars>>

ColumnGet(keys, col) ==
    /\ column_get(TrxNew(db), keys, col).status \in {"Some", "None", "panic"}
    /\ UNCHANGED vars

ColumnSet(keys, col, value, commit_ok) ==
    \E r \in {column_set(TrxNew(db), keys, col, value, commit_ok)} :
        /\ db' = r.db
        /\ ret' = Returned("column_set", r.status)
        /\ UNCHANGED <<tbl, rdbVars, fdbVars, kvVars>>

\* The store may refuse any commit.  For `set` and `delete`, which return
\* the refusal as TrxCommitFail, both verdicts are steps; a refused commit
\* of a column-level set aborts the caller and leaves the store as it was.
Next ==
    \/ \E self \in Rows, ok \in BOOLEAN : Set(self, ok)
    \/ \E keys \in KeyTuples, ok \in BOOLEAN : Delete(Holding(keys), ok)
    \/ \E keys \in KeyTuples : Get(keys)
    \/ \E col \in Cols : \E v \in TypeOf(col) : GetByUnique(col, v)
    \/ \E col \in Cols : \E v \in TypeOf(col) : GetByMulti(col, v)
    \/ \E keys \in KeyTuples, col \in Cols :
          \E v \in TypeOf(col) : SetAttr(Holding(keys), col, v, TRUE)
    \/ \E keys \in KeyTuples, col \in Cols : ColumnGet(keys, col)
    \/ \E keys \in KeyTuples, col \in Cols :
          \E v \in TypeOf(col) : ColumnSet(keys, col, v, TRUE)

Spec == Init /\ [][Next]_vars

\* The calls on whole rows alone: no column-level set.
NextRows ==
    \/ \E self \in Rows, ok \in BOOLEAN : Set(self, ok)
    \/ \E keys \in KeyTuples, ok \in BOOLEAN : Delete(Holding(keys), ok)
    \/ \E keys \in KeyTuples : Get(keys)
    \/ \E col \in Cols : \E v \in TypeOf(col) : GetByUnique(col, v)

SpecRows == Init /\ [][NextRows]_vars

---------------------------------------------------------------------------
(* What the store holds. *)

\* A fresh transaction on the committed store.
Fresh == TrxNew(db)

\* The stored cell of a column of a row, None when there is none.
Cell(keys, col) == TrxGet(Fresh, CellKey(keys, col))

\* A row is live when at least one of its column cells exists.
Live(keys) == \E col \in Cols : Cell(keys, col) # None

\* The unique-index entry under the bytes of a value, None when there is none.
UEntry(col, bytes) == TrxGet(Fresh, Pack(u_index_col_subspace(col), bytes))

\* The multi-index entry under some bytes.
MEntry(col, bytes) == TrxGet(Fresh, Pack(m_index_col_subspace(col), bytes))

UniqueCols == {U_INDEX_COLS[i] : i \in 1..Len(U_INDEX_COLS)}
MultiCols == {M_INDEX_COLS[i] : i \in 1..Len(M_INDEX_COLS)}

IndexErrors == {"IndexAlreadyExists", "IndexMismatchError"}

---------------------------------------------------------------------------
(* Claims *)

\* C1: starting from an empty store, after any sequence of committed or
\* failed row `set` calls on a table with a UNIQUE index, no two live rows
\* with different primary keys hold the same value in the unique column.
\* It is checked under SpecRows, where rows are deleted and read as well.
C1_UniqueIndexInvariant ==
    \A col \in UniqueCols : \A k1 \in KeyTuples, k2 \in KeyTuples :
        (k1 # k2 /\ Cell(k1, col) # None) => Cell(k1, col) # Cell(k2, col)

\* Two rows are live and a `set` has just been turned down for its value.
C1_Witness ==
    /\ UniqueCols # {}
    /\ \E k1 \in KeyTuples, k2 \in KeyTuples : k1 # k2 /\ Live(k1) /\ Live(k2)
    /\ ret = Returned("set", "IndexAlreadyExists")

\* C2: a row `set` that fails an index check commits nothing: every cell
\* and every index entry of the store is as it was before the call, also
\* when the call had already cleared the row's old unique-index entry or
\* passed the check of an earlier index.
C2_FailedSetCommitsNothing ==
    \A self \in Rows, ok \in BOOLEAN :
        \A r \in {set(self, Fresh, ok)} :
            r.status \in IndexErrors => r.db = db

\* A `set` has just failed on the multi index after its unique-index step
\* had passed and buffered the write of the new entry.
C2_Witness ==
    /\ ret = Returned("set", "IndexAlreadyExists")
    /\ \E self \in Rows :
          LET u == set_unique_indices(self, Fresh, 1)
          IN  /\ u.err = "Ok"
              /\ \E k \in DOMAIN u.trx.w : u.trx.w[k] # None
              /\ set(self, Fresh, TRUE).status = "IndexAlreadyExists"

\* C3: after a successful `delete` no unique-index entry of the deleted row
\* remains: every unique-index entry of the store points at a row that has
\* cells.
C3_DeleteClearsUniqueIndex ==
    (ret = Returned("delete", "Ok")) =>
        \A col \in UniqueCols : \A v \in TypeOf(col) :
            UEntry(col, Ser(v)) # None => Live(DeKeyTuple(UEntry(col, Ser(v))))

\* C4: after any sequence of row `set`, column-level set and `delete`,
\* every unique-index entry V -> pk points at a row whose stored indexed
\* column is V, and every row with a stored indexed value V has the entry
\* index[V] = its own primary key.
C4_IndexAgreesWithData ==
    \A col \in UniqueCols :
        /\ \A v \in TypeOf(col) :
              UEntry(col, Ser(v)) # None =>
                  Cell(DeKeyTuple(UEntry(col, Ser(v))), col) = Ser(v)
        /\ \A keys \in KeyTuples :
              Cell(keys, col) # None =>
                  UEntry(col, Cell(keys, col)) = SerKeyTuple(keys)

\* C5: the multi index never makes a row `set` fail with IndexAlreadyExists:
\* whenever `set` has returned it, it is the unique-index step that refuses
\* a row (the store being as the failed call found it).
C5_MultiIndexNeverCollides ==
    (ret = Returned("set", "IndexAlreadyExists")) =>
        \E self \in Rows : set_unique_indices(self, Fresh, 1).err = "IndexAlreadyExists"

\* C6: get_by_<multi_index>(value) returns exactly the rows whose stored
\* multi-indexed column is the value.
C6_GetByMultiReturnsTheRows ==
    \A col \in MultiCols : \A v \in TypeOf(col) :
        \A holders \in {{k \in KeyTuples : Cell(k, col) = Ser(v)}} :
            holders # {} =>
                \A g \in {get_by_multi(Fresh, col, v)} :
                    /\ g.status = "Ok"
                    /\ g.rows = {get(Fresh, keys).row : keys \in holders}

\* C7: a row built with `new` and written by a successful `set` is read
\* back by `get` with the same key in a fresh transaction with the bytes
\* of every column as they were written.
C7_SetGetRoundTrip ==
    \A self \in Rows :
        \A r \in {set(self, Fresh, TRUE)} :
            r.status = "Ok" =>
                \A g \in {get(TrxNew(r.db), self._subspace)} :
                    /\ g.status = "Some"
                    /\ g.row.attr = self.attr
                    /\ g.row._serialized_key_tuple = self._serialized_key_tuple

\* A `set` has just committed and `get` returns a whole row, as `new`
\* builds it.
C7_Witness ==
    /\ ret = Returned("set", "Ok")
    /\ \E self \in Rows :
          /\ get(Fresh, self._subspace).status = "Some"
          /\ get(Fresh, self._subspace).row.attr = self.attr

\* C8: `get` of a primary key none of whose cells exist returns None: no
\* error, no abort.
C8_GetOfAbsentRowIsNone ==
    \A keys \in KeyTuples : ~Live(keys) => get(Fresh, keys).status = "None"

\* C9: the column-level set of a primary-key column, through set_<attr> as
\* through column::<attr>::set, returns OpProhibited with no write buffered
\* and nothing committed, store and in-memory row unchanged; for any other
\* column it does not return OpProhibited.
C9_PrimaryKeyImmutable ==
    /\ \A self \in Rows, col \in Cols, ok \in BOOLEAN : \A v \in TypeOf(col) :
          InSeq(col, PK_COLS) =>
              \A a \in {set_attr(self, Fresh, col, v, ok)} :
              \A c \in {column_set(Fresh, self._subspace, col, v, ok)} :
                  /\ a.status = "OpProhibited" /\ c.status = "OpProhibited"
                  /\ a.trx.w = <<>> /\ c.trx.w = <<>>
                  /\ a.db = db /\ c.db = db
                  /\ a.self = self
    /\ \A keys \in KeyTuples, col \in Cols, ok \in BOOLEAN : \A v \in TypeOf(col) :
          ~InSeq(col, PK_COLS) =>
              /\ set_attr(Holding(keys), Fresh, col, v, ok).status # "OpProhibited"
              /\ column_set(Fresh, keys, col, v, ok).status # "OpProhibited"

\* The set of a key column of a stored row with a composite key has just
\* been turned down.
C9_Witness ==
    /\ Len(PK_COLS) = 2
    /\ \E keys \in KeyTuples : \A col \in Cols : Cell(keys, col) # None
    /\ ret = Returned("set_attr", "OpProhibited")

\* C10: when a row whose stored unique-indexed value is V1 is `set` with a
\* value V2 # V1 and the `set` commits, the index has no entry for V1
\* (get_by_<unique_index>(V1) is None) and get_by_<unique_index>(V2) is
\* the row.
C10_UniqueIndexMoves ==
    \A self \in Rows : \A col \in UniqueCols :
        \A old \in {Cell(self._subspace, col)} :
            (old # None /\ old # self.attr[col]) =>
                \A r \in {set(self, Fresh, TRUE)} :
                    r.status = "Ok" =>
                        \A g \in {get_by_unique(TrxNew(r.db), col, De(self.attr[col]))} :
                            /\ TrxGet(TrxNew(r.db), Pack(u_index_col_subspace(col), old)) = None
                            /\ get_by_unique(TrxNew(r.db), col, De(old)).status = "None"
                            /\ g.status = "Some"
                            /\ g.row._subspace = self._subspace
                            /\ g.row.attr = self.attr

\* A `set` has just committed and a row that owns the entry of its stored
\* value can be moved to a free one.
C10_Witness ==
    /\ ret = Returned("set", "Ok")
    /\ \E self \in Rows : \E col \in UniqueCols :
          /\ Cell(self._subspace, col) # None
          /\ Cell(self._subspace, col) # self.attr[col]
          /\ UEntry(col, Cell(self._subspace, col)) = self._serialized_key_tuple
          /\ set(self, Fresh, TRUE).status = "Ok"

---------------------------------------------------------------------------
(* Claims on RdbConnection *)

\* A call of transact has returned (or aborted) and no other has begun.
TransactReturned == pc = "idle" /\ out.op = "transact"

\* Every closure invocation of the call succeeded and every commit
\* reported Busy or TryAgain.
AllConflicts ==
    /\ begun.reverts = 0
    /\ Len(begun.commits) = begun.invoked
    /\ \A j \in DOMAIN begun.commits : begun.commits[j] \in {"Busy", "TryAgain"}

\* C11: with retry_attempts = n >= 1, a closure that always succeeds and
\* commits that all report Busy or TryAgain, transact terminates, has
\* opened exactly n transactions and invoked the closure exactly n times,
\* and returns an error.
C11_RetryTermination ==
    /\ [](  (retry_attempts >= 1 /\ TransactReturned /\ AllConflicts) =>
               /\ begun.opened = retry_attempts
               /\ begun.invoked = retry_attempts
               /\ out.r.tag = "Err")
    /\ (pc # "idle") ~> (pc = "idle")

\* A call with two attempts, both turned down by a conflict, has returned.
C11_Witness ==
    /\ retry_attempts = 2
    /\ TransactReturned /\ AllConflicts
    /\ begun.commits = <<"Busy", "TryAgain">>

\* C12: for every retry_attempts, 0 included, when the loop ends with no
\* commit having succeeded and no early return, transact returns Err with
\* the conflict error of the last attempt: it neither aborts nor returns Ok.
C12_ExhaustionReturnsLastConflict ==
    (TransactReturned /\ AllConflicts) =>
        /\ out.r.tag = "Err"
        /\ begun.commits # <<>>
        /\ out.r.err = RdbTrxFailed(begun.commits[Len(begun.commits)])

\* C13: when the closure returns an error on attempt k, transact makes no
\* further attempt (k invocations in all, no transaction opened after it),
\* calls no commit for that attempt, and the store has none of the writes
\* of the attempt.
C13_ApplicationErrorNotRetried ==
    (out.op = "transact" /\ result.tag = "Err") =>
        /\ pc \in {"revert", "idle"}
        /\ begun.invoked = loop_i + 1
        /\ begun.opened = begun.invoked
        /\ Len(begun.commits) = begun.invoked - 1
        /\ database = begun.database
        /\ pc = "idle" => out.r.tag = "Err"

\* The closure failed on the second attempt, after buffering a write that
\* would have changed the store, and transact has returned.
C13_Witness ==
    /\ TransactReturned
    /\ result.tag = "Err"
    /\ begun.invoked = 2
    /\ \E k \in RdbKeys : begun.batch[k] \notin {Untouched, database[k]}

\* C14: transact returns Ok(v) only if the commit of the attempt whose
\* closure invocation produced v succeeded, and then all the writes of
\* that attempt, and of no other, are in the store; when it returns
\* anything else the store is as the call found it.
C14_OkOnlyAfterCommit ==
    TransactReturned =>
        IF out.r.tag = "Ok"
          THEN /\ begun.commits # <<>>
               /\ begun.commits[Len(begun.commits)] = "Ok"
               /\ begun.won.open
               /\ begun.won.w = begun.batch
               /\ out.r.val = begun.value
               /\ database = Applied(begun.database, begun.won.w)
          ELSE database = begun.database

\* transact has returned Ok on its second attempt, after a conflict, with
\* a write that changed the store.
C14_Witness ==
    /\ TransactReturned
    /\ out.r.tag = "Ok"
    /\ Len(begun.commits) = 2
    /\ database # begun.database

\* C20: when the database directory cannot be opened, establish returns
\* the error value EstablishFail: it does not abort.
C20_RdbEstablishFailIsReturned ==
    (out.op = "establish" /\ conn = "none") => out.r = ReturnErr(EstablishFail)

---------------------------------------------------------------------------
(* Claims on FdbConnection *)

\* The error of a closure that is its own: it holds no error of the store.
IsApplicationError(res) == res.tag = "Err" /\ get_fdb_error(res.err) = "none"

\* What transact returns for a conflict or a failure of the store.
StoreFailures == {FdbTrxFailed(NonRetryableFdbError(code)) : code \in FdbCodes}

\* C15: the result of FdbConnection::transact tells an error raised by the
\* closure itself from a conflict or failure of the store: the two are
\* never the same TransactionError value, and an application error of the
\* closure ends the call at once, the closure is not run again.
C15_ClosureErrorKeptApart ==
    (fdb_out.op = "transact") =>
        LET k == fdb_out.invoked
            last == fdb_in.attempts[k].f
        IN  /\ \A j \in 1..(k - 1) : ~IsApplicationError(fdb_in.attempts[j].f)
            /\ IsApplicationError(last) =>
                  /\ fdb_out.r = ReturnErr(FdbTrxFailed(last.err))
                  /\ fdb_out.r.err \notin StoreFailures
            /\ (fdb_out.r.tag = "Err" /\ ~IsApplicationError(last)) =>
                  fdb_out.r.err \in StoreFailures

\* After a conflict the closure was run again and returned an error of
\* its own.
C15_Witness ==
    /\ fdb_out.op = "transact"
    /\ fdb_out.invoked = 2
    /\ IsApplicationError(fdb_in.attempts[2].f)
    /\ fdb_in.attempts[1].commit = "not_committed"

\* C16: in any sequence of start and stop calls, start returns Ok and
\* changes nothing (the runner, booted at its first use, keeps running)
\* whenever the runner has not been stopped, and returns an error on every
\* call after a successful stop; a stopped runner never runs again.
C16_StartLifecycle ==
    [][ /\ (fdb_out'.op = "start") =>
              IF network_runner = "stopped"
                THEN /\ fdb_out'.r.tag = "Err"
                     /\ UNCHANGED <<network_runner, dropped, fdb_database>>
                ELSE /\ fdb_out'.r.tag = "Ok"
                     /\ network_runner' = "running"
                     /\ UNCHANGED <<dropped, fdb_database>>
        /\ (network_runner = "stopped") => (network_runner' = "stopped") ]_vars

\* A start has been turned down after a stop.
C16_Witness ==
    /\ fdb_out.op = "start"
    /\ fdb_out.r.tag = "Err"
    /\ dropped = 1

\* C17: in any sequence of start and stop calls, exactly the first stop
\* returns Ok and releases the runner; every later stop returns an error
\* and leaves the runner stopped.
C17_StopLifecycle ==
    /\ [](dropped <= 1 /\ (network_runner = "stopped" <=> dropped = 1))
    /\ [][ (fdb_out'.op = "stop") =>
              /\ network_runner' = "stopped"
              /\ IF dropped = 0
                   THEN fdb_out'.r.tag = "Ok" /\ dropped' = 1
                   ELSE fdb_out'.r.tag = "Err" /\ dropped' = dropped ]_vars

\* A second stop has been turned down.
C17_Witness ==
    /\ fdb_out.op = "stop"
    /\ fdb_out.r.tag = "Err"
    /\ network_runner = "stopped"

\* C18: after a successful stop, transact and establish fail with an
\* error.
C18_NoStoreOperationAfterStop ==
    (network_runner = "stopped" /\ fdb_out.op \in {"establish", "transact"}) =>
        fdb_out.r.tag = "Err"

\* C19: establish returns EstablishFail when the cluster path, with an
\* `fdb:` prefix stripped, names no existing file, and does not return
\* EstablishFail for the path when it names one.
C19_FdbEstablishChecksClusterFile ==
    (fdb_out.op = "establish") =>
        IF is_file(strip_prefix(fdb_in.cluster_path))
          THEN fdb_out.r.err # EstablishFail
          ELSE fdb_out.r = ReturnErr(EstablishFail)

---------------------------------------------------------------------------
(* Claims on RdbKeyspace *)

\* key lies in the half-open interval [interval[1], interval[2])
InInterval(bytes, interval) ==
    ~BytesLess(bytes, interval[1]) /\ BytesLess(bytes, interval[2])

\* Two half-open intervals share a byte string.
Overlap(one, other) ==
    BytesLess(one[1], other[2]) /\ BytesLess(other[1], one[2])

Other(on) == 3 - on

SeparatorFree(bytes) == \A n \in 1..Len(bytes) : <<bytes[n]>> # SEPARATOR

PackedUnder(bytes, space) == \E x \in ByteStrings : bytes = pack(space, x)

\* The two siblings are derived from different byte strings.
Siblings == ks_how \in {"keyspace", "from_bytes"} /\ ks_child[1] # ks_child[2]

\* What C21 asks of two siblings in a state.
Isolated ==
    /\ ks_call.op = "range" =>
          ~Overlap(ks_call.range, range(ks_sib[Other(ks_call.on)]))
    /\ ks_call.op = "unpack" /\ PackedUnder(ks_call.arg, ks_sib[Other(ks_call.on)]) =>
          ~ks_call.opt.some

\* C21 as stated: two keyspaces derived with keyspace or from_bytes from
\* different byte strings, whatever bytes these hold, have ranges that do
\* not overlap, and a key packed under one never unpacks under the other.
C21_PrefixIsolation == Siblings => Isolated

\* C21: two keyspaces derived with keyspace or from_bytes from different
\* byte strings that do not hold the separator byte 0x1F have ranges that
\* do not overlap, and a key packed under one never unpacks under the other.
C21_PrefixIsolationWithoutSeparator ==
    Siblings /\ SeparatorFree(ks_child[1]) /\ SeparatorFree(ks_child[2]) => Isolated

\* Siblings of one parent, one child a prefix of the other, and a key of
\* one handed to unpack of the other.
C21_Witness ==
    /\ Siblings
    /\ ks_how = "keyspace"
    /\ SeparatorFree(ks_child[1]) /\ SeparatorFree(ks_child[2])
    /\ StartsWith(ks_child[2], ks_child[1])
    /\ ks_call.op = "unpack"
    /\ PackedUnder(ks_call.arg, ks_sib[Other(ks_call.on)])
    /\ ~ks_call.opt.some

\* C22: the interval range() returns holds a key if and only if the key
\* starts with the prefix of the keyspace.
C22_RangeCoversExactlyThePrefix ==
    ks_call.op = "range" =>
        \A bytes \in AnyKeys(ks_sib) :
            InInterval(bytes, ks_call.range) <=> StartsWith(bytes, ks_sib[ks_call.on])

\* C23: a key packed under a keyspace lies in the range of every keyspace
\* whose prefix is a prefix of its prefix.
C23_NestedContainment ==
    ks_call.op = "pack" =>
        \A outer \in {ks_parent, ks_sib[1], ks_sib[2]} :
            StartsWith(ks_sib[ks_call.on], outer) => InInterval(ks_call.key, range(outer))

\* C24: pack returns the prefix followed by the bytes and unpack of that key
\* returns Some of the bytes; unpack returns Some exactly for the keys that
\* start with the prefix, and then the rest of the key.
C24_PackUnpackRoundTrip ==
    /\ ks_call.op = "pack" =>
          /\ ks_call.key = as_bytes(ks_sib[ks_call.on]) \o ks_call.arg
          /\ unpack(ks_sib[ks_call.on], ks_call.key) = SomeKey(ks_call.arg)
    /\ ks_call.op = "unpack" =>
          /\ ks_call.opt.some <=> StartsWith(ks_call.arg, ks_sib[ks_call.on])
          /\ ks_call.opt.some => as_bytes(ks_sib[ks_call.on]) \o ks_call.opt.v = ks_call.arg

\* unpack has stripped a prefix that is not empty off a longer key.
C24_Witness ==
    /\ ks_call.op = "unpack"
    /\ ks_sib[ks_call.on] # <<>>
    /\ ks_call.opt.some
    /\ ks_call.opt.v # <<>>

---------------------------------------------------------------------------
(* Claims on the range reads of RdbTransaction *)

\* The stored keys between two bounds, whichever of the two is the larger,
\* the bounds included.
Between(store, from_key, to_key) ==
    LET lo == IF BytesLess(to_key, from_key) THEN to_key ELSE from_key
        hi == IF BytesLess(to_key, from_key) THEN from_key ELSE to_key
    IN  {k \in Stored(store) : ~BytesLess(k, lo) /\ ~BytesLess(hi, k)}

\* C25: get_range(from, to) returns Ok of the stored pairs whose key lies
\* between the two bounds, in ascending order of the keys, whether from is
\* below, equal to or above to.
C25_GetRangeReturnsTheKeysBetween ==
    iter_out.op = "get_range" =>
        iter_out.r = IterOk(KeyValues(iter_db,
                                      Ascending(Between(iter_db, iter_out.from, iter_out.to))))

\* C26: get_space(keyspace) returns Ok of the stored pairs whose key starts
\* with the prefix of the keyspace, in ascending order of the keys.
C26_GetSpaceReturnsThePrefix ==
    iter_out.op = "get_space" =>
        iter_out.r = IterOk(KeyValues(iter_db,
                                      Ascending({k \in Stored(iter_db) :
                                                    StartsWith(k, iter_out.from)})))

\* C27: clear_space(keyspace) returns Ok, and leaves no key that starts
\* with the prefix of the keyspace and every other key as it was.
C27_ClearSpaceClearsThePrefix ==
    [][iter_out'.op = "clear_space" =>
          /\ iter_out'.r.tag = "Ok"
          /\ \A k \in IterKeys :
                iter_db'[k] = IF StartsWith(k, iter_out'.from) THEN Absent ELSE iter_db[k]]_vars

---------------------------------------------------------------------------
(* Claims on RocksDB transactions side by side *)

\* The last call was a get.
HasRead == got.op = "get"

\* C28: a get of a transaction returns the write of the transaction itself
\* to that key if it made one, and otherwise the value the key had when the
\* transaction began, whatever other transactions have committed since.
C28_SnapshotIsolation ==
    HasRead =>
        got.r = IF trxs[got.t].w[got.key] # Untouched
                  THEN trxs[got.t].w[got.key]
                  ELSE trxs[got.t].snap[got.key]

\* The last call was a commit that reported a failure, a revert, or a drop.
GaveUp(g) == g.op \in {"revert", "drop"} \/ (g.op = "commit" /\ g.r # "Ok")

\* C29: the committed store changes only in the step of a successful
\* commit, and then by the whole write batch of that transaction at once; a
\* failed commit, a revert and a drop leave it as it was; and a get returns
\* the committed value of the key or the write of its own transaction,
\* never a write another transaction has not committed.
C29_AtomicCommit ==
    /\ [](HasRead => got.r \in {database[got.key], trxs[got.t].w[got.key]})
    /\ [][/\ database' # database => got'.op = "commit" /\ got'.r = "Ok"
          /\ got'.op = "commit" /\ got'.r = "Ok" =>
                database' = Applied(database, trxs[got'.t].w)
          /\ GaveUp(got') => database' = database]_vars

\* A commit has put two keys into the store while the other transaction,
\* which has writes of its own, was open.
C29_Witness ==
    /\ got.op = "commit"
    /\ got.r = "Ok"
    /\ \A k \in RdbKeys : database[k] \in Written
    /\ \E t \in Tids \ {got.t} :
          trxs[t].open /\ \E k \in RdbKeys : trxs[t].w[k] = Absent

---------------------------------------------------------------------------
(* Claims on calls of `set` side by side *)

\* No row of the store holds the bytes in the column and the unique index
\* of the column has no entry for them.
Unowned(store, col, bytes) ==
    /\ \A keys \in KeyTuples : TrxGet(TrxNew(store), CellKey(keys, col)) # bytes
    /\ TrxGet(TrxNew(store), Pack(u_index_col_subspace(col), bytes)) = None

\* Both calls have returned; their rows have different primary keys and the
\* same value in the unique column, a value no row owned at the start.
SameUniqueValue(col) ==
    /\ \A c \in Cids : sets.calls[c].pc = "returned"
    /\ sets.calls["A"].self._subspace # sets.calls["B"].self._subspace
    /\ sets.calls["A"].self.attr[col] = sets.calls["B"].self.attr[col]
    /\ Unowned(sets.start, col, sets.calls["A"].self.attr[col])

\* C30: of two calls of `set` for rows with different primary keys and the
\* same value of a unique column, a value that no row owned at the start,
\* at most one commits, however their steps interleave; afterwards at most
\* one row holds the value, and the index entry of the value is the primary
\* key of the row whose call committed.
C30_UniqueIndexUnderConcurrency ==
    \A col \in UniqueCols :
        SameUniqueValue(col) =>
            /\ ~(\A c \in Cids : sets.calls[c].status = "Ok")
            /\ Cardinality({keys \in KeyTuples :
                              Cell(keys, col) = sets.calls["A"].self.attr[col]}) <= 1
            /\ \A c \in Cids :
                  sets.calls[c].status = "Ok" =>
                      UEntry(col, sets.calls[c].self.attr[col])
                        = sets.calls[c].self._serialized_key_tuple

\* Both calls had read the index before either committed; one committed and
\* the store refused the commit of the other for a key it had read.
C30_Witness ==
    \E col \in UniqueCols : \E c \in Cids, d \in Cids :
        /\ SameUniqueValue(col)
        /\ sets.calls[c].status = "Ok"
        /\ sets.calls[d].status = "TrxCommitFail"
        /\ sets.calls[d].reads \cap sets.calls[d].stale # {}

---------------------------------------------------------------------------
(* Claims on the indices of a row that is set again or deleted *)

\* The row `new` builds from the key tuple and one value of a column.
SetAgain(keys, col, value) ==
    {self \in Rows : self._subspace = keys /\ self.attr[col] = Ser(value)}

\* C31: for every row saved by `set` on a table with a MULTI index (its
\* stored value has the entry set_multi_index wrote for it), `delete` of the
\* row does not fail with TrxFail: it returns Ok, clears that entry and
\* leaves the multi-index entries of every other row in place.
C31_DeleteFindsTheMultiIndexEntry ==
    \A keys \in KeyTuples : \A col \in MultiCols :
        (Cell(keys, col) # None /\ MEntry(col, Cell(keys, col)) = SerKeyTuple(keys)) =>
            \A d \in {delete(Holding(keys), Fresh, TRUE)} :
                /\ d.status = "Ok"
                /\ \A v \in TypeOf(col) :
                      TrxGet(TrxNew(d.db), Pack(m_index_col_subspace(col), Ser(v)))
                          = IF Ser(v) = Cell(keys, col) THEN None ELSE MEntry(col, Ser(v))

\* C32: a unique-index `set` returns IndexAlreadyExists only when the entry
\* under the new value's index key belongs to another row: it never returns
\* it when that entry's stored primary key is the key of the row being set.
C32_AlreadyExistsMeansAnotherRow ==
    \A self \in Rows : \A col \in UniqueCols :
        (set_unique_index(Fresh, u_index_col_subspace(col), self.attr[col],
                          CellKey(self._subspace, col),
                          self._serialized_key_tuple).err = "IndexAlreadyExists")
            => UEntry(col, self.attr[col]) # self._serialized_key_tuple

\* C33: when the row being `set` has a stored indexed value whose
\* unique-index entry holds the primary key of another row, `set` returns
\* IndexMismatchError whatever the new value is, no clear or write has been
\* issued by then and the store is left as it was.
C33_IndexMismatchDetected ==
    \A self \in Rows : \A col \in UniqueCols :
        (/\ Cell(self._subspace, col) # None
         /\ UEntry(col, Cell(self._subspace, col)) # None
         /\ UEntry(col, Cell(self._subspace, col)) # self._serialized_key_tuple) =>
            /\ \A u \in {set_unique_index(Fresh, u_index_col_subspace(col), self.attr[col],
                                          CellKey(self._subspace, col),
                                          self._serialized_key_tuple)} :
                  u.err = "IndexMismatchError" /\ u.trx.w = <<>>
            /\ \A r \in {set(self, Fresh, TRUE)} :
                  r.status = "IndexMismatchError" /\ r.db = db

\* A `set` has just returned IndexMismatchError for a row whose stored value
\* is indexed under another row's key, and such a row would be refused both
\* with its stored value and with a new one.
C33_Witness ==
    /\ ret = Returned("set", "IndexMismatchError")
    /\ \E keys \in KeyTuples : \E col \in UniqueCols :
          /\ Cell(keys, col) # None
          /\ UEntry(col, Cell(keys, col)) \notin {None, SerKeyTuple(keys)}
          /\ \E v, w \in TypeOf(col) :
                /\ Ser(v) = Cell(keys, col) /\ w # v
                /\ SetAgain(keys, col, v) # {} /\ SetAgain(keys, col, w) # {}

---------------------------------------------------------------------------
(* Claims on the attempts of RdbConnection's transact *)

\* What the commit that was called last reported.
LastCommit == begun.commits[Len(begun.commits)]

Conflicts == {"Busy", "TryAgain"}

\* C34: after a commit that failed with Busy or TryAgain the loop goes on,
\* and while attempts remain its next round opens a new transaction; a
\* commit that failed with any other kind makes transact return that error
\* in the same step, so that the closure is not invoked again.
C34_CommitFailureClassification ==
    /\ []((TransactReturned /\ begun.commits # <<>> /\ LastCommit \notin Conflicts \cup {"Ok"}) =>
             /\ out.r = ReturnErr(RdbTrxFailed(LastCommit))
             /\ begun.invoked = Len(begun.commits))
    /\ [][/\ (pc = "commit" /\ Len(begun'.commits) = Len(begun.commits) + 1) =>
                IF LastCommit' \in Conflicts
                  THEN pc' = "for" /\ loop_i' = loop_i + 1 /\ out' = out
                ELSE IF LastCommit' # "Ok"
                  THEN pc' = "idle" /\ out' = Out("transact", ReturnErr(RdbTrxFailed(LastCommit')))
                ELSE TRUE
          /\ (pc = "for" /\ begun.commits # <<>> /\ loop_i < retry_attempts) =>
                /\ pc' = "f"
                /\ transaction' = [open |-> TRUE, w |-> EmptyBatch]
                /\ begun'.opened = begun.opened + 1]_vars

\* After a conflict on the first attempt the commit of the second failed
\* with Corruption, and transact has returned that error.
C34_Witness ==
    /\ TransactReturned
    /\ begun.commits = <<"TryAgain", "Corruption">>
    /\ begun.invoked = 2
    /\ out.r = ReturnErr(RdbTrxFailed("Corruption"))

\* C35: when the closure returned an error, transact returns that same
\* error, also when the rollback of the transaction failed.
C35_ClosureErrorIsReturned ==
    (TransactReturned /\ result.tag = "Err") => out.r = ReturnErr(result.err)

\* Every closure invocation of the call succeeded, every commit but the
\* last reported a conflict and the last one succeeded.
SucceededAfterConflicts ==
    /\ out.op = "transact"
    /\ begun.reverts = 0
    /\ begun.commits # <<>>
    /\ LastCommit = "Ok"
    /\ \A j \in 1..(Len(begun.commits) - 1) : begun.commits[j] \in Conflicts

\* C39: when the closure succeeds on every invocation and the commit
\* reports conflicts on the first k-1 attempts and succeeds on attempt k,
\* transact has returned Ok with the value of the k-th closure invocation,
\* after exactly k invocations (k <= retry_attempts) and exactly one
\* successful commit; and every call of transact returns.
C39_EventualSuccess ==
    /\ [](SucceededAfterConflicts =>
             /\ TransactReturned
             /\ result.tag = "Ok"
             /\ out.r = ReturnOk(result.val)
             /\ begun.invoked = Len(begun.commits)
             /\ begun.opened = Len(begun.commits)
             /\ Len(begun.commits) <= retry_attempts
             /\ Cardinality({j \in DOMAIN begun.commits : begun.commits[j] = "Ok"}) = 1)
    /\ (out.op = "transact" /\ pc # "idle") ~> TransactReturned

\* With two attempts allowed the first commit reported Busy, the second
\* succeeded, and transact has returned the value of the second invocation.
C39_Witness ==
    /\ retry_attempts = 2
    /\ TransactReturned
    /\ begun.commits = <<"Busy", "Ok">>
    /\ begun.invoked = 2
    /\ out.r = ReturnOk("v2")

\* C40: every round of the loop hands the closure a transaction opened in
\* that round with nothing buffered, the commit is called on the writes of
\* that round's invocation alone, nothing reaches the store while no commit
\* has succeeded, and after Ok the store is the store the call began on
\* with the batch of the successful attempt applied.
C40_AttemptsAreIndependent ==
    /\ pc = "f" =>
          /\ transaction = [open |-> TRUE, w |-> EmptyBatch]
          /\ begun.opened = Len(begun.commits) + 1
    /\ pc = "commit" => transaction.w = begun.batch
    /\ (out.op = "transact" /\ pc # "idle") => database = begun.database
    /\ (TransactReturned /\ out.r.tag = "Ok") =>
          database = Applied(begun.database, begun.batch)

\* The first attempt buffered a write that would have changed the store,
\* its commit reported Busy, and the loop is about to open the transaction
\* of the second attempt.
C40_Witness ==
    /\ pc = "for"
    /\ begun.commits = <<"Busy">>
    /\ loop_i < retry_attempts
    /\ \E k \in RdbKeys : begun.batch[k] \notin {Untouched, database[k]}

---------------------------------------------------------------------------
(* Claims on start and stop of FdbConnection *)

\* C36: a `stop` that finds the runner already stopped returns a stop
\* error, DbConnError::StopError, and not the StartError that `start`
\* returns after a stop.
C36_RepeatedStopIsAStopError ==
    (fdb_out.op = "stop" /\ fdb_out.r.tag = "Err") =>
        /\ fdb_out.r.err[1] = "StopError"
        /\ fdb_out.r.err # start("stopped").r.err

\* The places of the lock order at which a call of `op` returned `tag`.
Returns(op, tag) ==
    {j \in DOMAIN threads.lock_order :
        threads.lock_order[j].op = op /\ threads.lock_order[j].tag = tag}

\* C37: however the calls of start and stop of several threads interleave,
\* at most one stop returns Ok, and exactly one once any stop has returned;
\* the runner is dropped once, by that stop; and no start that acquired
\* the lock after the successful stop returns Ok.
C37_MutexGuardedSingleton ==
    /\ Cardinality(Returns("stop", "Ok")) <= 1
    /\ Returns("stop", "Ok") \cup Returns("stop", "Err") # {} =>
          Cardinality(Returns("stop", "Ok")) = 1
    /\ dropped = Cardinality(Returns("stop", "Ok"))
    /\ \A j \in Returns("stop", "Ok") : \A l \in Returns("start", "Ok") : l < j

\* Two threads called stop and a third start while the lock was held; the
\* lock went to one stop, then to the other, then to the start.
C37_Witness ==
    /\ Len(threads.lock_order) = 3
    /\ \A t \in Tnames : \E j \in 1..3 : threads.lock_order[j].t = t
    /\ Returns("stop", "Ok") = {1}
    /\ Returns("stop", "Err") = {2}
    /\ Returns("start", "Err") = {3}

---------------------------------------------------------------------------
(* Claims on get_range of the two backends *)

\* C38: for the same store content and the same bounds, get_range of
\* RdbTransaction and get_range of FdbTransaction return the same
\* key-value pairs: they agree on a stored key equal to the upper bound
\* `to`, and on the result when from is above to.
C38_BackendsAgreeOnGetRange ==
    \A from_key \in IterBounds, to_key \in IterBounds :
        get_range(iter_db, from_key, to_key)
            = FdbTransaction_get_range(iter_db, from_key, to_key)

===========================================================================
